---- MODULE Spec2Model ----
(***************************************************************************)
(* A model of the Tanjiro chatbot's meme retrieval engine                  *)
(* (src/meme_search.py) and of the web front end's media cache             *)
(* (src/tanjiro_web.py).                                                   *)
(*                                                                         *)
(* Texts (topics, queries, hashtags) are sequences of one-character        *)
(* strings, so that lower(), strip(), the hashtag pattern and substring    *)
(* tests are computed character by character as Python computes them.      *)
(* URLs are sequences of segments (strings); segment boundaries fall where *)
(* the code's suffix and substring tests can match.                        *)
(* JSON values of a provider payload are records [type, val].              *)
(* Record constructors list their fields in one fixed order throughout.    *)
(***************************************************************************)
EXTENDS Integers, Sequences, FiniteSets, TLC

(***************************************************************************)
(* Bounds of the model.                                                    *)
(***************************************************************************)
\* largest limit a caller passes to search_memes
MaxLimit == 2
\* largest number of posts in one provider response
MaxPosts == 1
\* number of download_image calls in one run of the media cache
MaxCalls == 3
\* largest number of pieces a raw normalizer input is made of
MaxPieces == 3
\* the largest number of memes an instance's override database holds
MaxMemes == 2
\* the largest number of messages the chat shows
MaxChat == 2
\* max_entries of the memory agent
MaxEntries == 2
\* largest number of entries in a payload given to an adapter called on its own
MaxPayload == 2

(***************************************************************************)
(* Python string primitives.                                               *)
(***************************************************************************)
LowerLetters ==
    <<"a","b","c","d","e","f","g","h","i","j","k","l","m",
      "n","o","p","q","r","s","t","u","v","w","x","y","z">>

UpperLetters ==
    <<"A","B","C","D","E","F","G","H","I","J","K","L","M",
      "N","O","P","Q","R","S","T","U","V","W","X","Y","Z">>

Digits == {"0","1","2","3","4","5","6","7","8","9"}

Range(f) == { f[i] : i \in DOMAIN f }

\* \w of the re module: letters, digits and the underscore
IsWordChar(c) == c \in Range(LowerLetters) \cup Range(UpperLetters) \cup Digits \cup {"_"}

\* \s of the re module, and the characters str.strip() removes
IsSpace(c) == c \in {" ", "\t", "\n"}

\* str.lower() on one character
LowerChar(c) ==
    IF c \in Range(UpperLetters)
    THEN LowerLetters[CHOOSE i \in DOMAIN UpperLetters : UpperLetters[i] = c]
    ELSE c

\* str.lower()
Lower(s) == [i \in DOMAIN s |-> LowerChar(s[i])]

RECURSIVE LStrip(_)
LStrip(s) == IF s # <<>> /\ IsSpace(Head(s)) THEN LStrip(Tail(s)) ELSE s

RECURSIVE RStrip(_)
RStrip(s) ==
    IF s # <<>> /\ IsSpace(s[Len(s)]) THEN RStrip(SubSeq(s, 1, Len(s) - 1)) ELSE s

\* str.strip()
Strip(s) == RStrip(LStrip(s))

\* sub in s (substring test)
Contains(sub, s) ==
    \E i \in 0..(Len(s) - Len(sub)) : SubSeq(s, i + 1, i + Len(sub)) = sub

\* s.endswith(suffix)
EndsWith(s, suffix) ==
    Len(s) >= Len(suffix) /\ SubSeq(s, Len(s) - Len(suffix) + 1, Len(s)) = suffix

\* s.split(): the maximal runs of non-whitespace characters
RECURSIVE SplitFrom(_, _, _)
SplitFrom(s, i, cur) ==
    IF i > Len(s) THEN (IF cur = <<>> THEN <<>> ELSE <<cur>>)
    ELSE IF IsSpace(s[i])
         THEN (IF cur = <<>> THEN <<>> ELSE <<cur>>) \o SplitFrom(s, i + 1, <<>>)
         ELSE SplitFrom(s, i + 1, Append(cur, s[i]))

Split(s) == SplitFrom(s, 1, <<>>)

\* " ".join(words)
RECURSIVE Join(_)
Join(words) ==
    IF words = <<>> THEN <<>>
    ELSE IF Len(words) = 1 THEN words[1]
    ELSE words[1] \o <<" ">> \o Join(Tail(words))

\* list.remove(x): drops the first occurrence of x
RECURSIVE Remove(_, _)
Remove(xs, x) ==
    IF xs = <<>> THEN <<>>
    ELSE IF Head(xs) = x THEN Tail(xs)
    ELSE <<Head(xs)>> \o Remove(Tail(xs), x)

\* a removal that removes nothing
RemoveAll_none(xs, ys) == xs

RECURSIVE RemoveAll(_, _)
RemoveAll(xs, ys) ==
    IF ys = <<>> THEN xs ELSE RemoveAll(Remove(xs, Head(ys)), Tail(ys))

(***************************************************************************)
(* Words the code names.                                                   *)
(***************************************************************************)
W_meme == <<"m","e","m","e">>
W_anime == <<"a","n","i","m","e">>
W_demon == <<"d","e","m","o","n">>
W_slayer == <<"s","l","a","y","e","r">>
W_tanjiro == <<"t","a","n","j","i","r","o">>
W_nezuko == <<"n","e","z","u","k","o">>
W_zenitsu == <<"z","e","n","i","t","s","u">>
W_inosuke == <<"i","n","o","s","u","k","e">>
W_demonslayer == W_demon \o W_slayer
W_kimetsunoyaiba == <<"k","i","m","e","t","s","u","n","o","y","a","i","b","a">>

\* the three-word query of the franchise fallback retry
DemonSlayerAnime == W_demon \o <<" ">> \o W_slayer \o <<" ">> \o W_anime

AnimeTags == {W_anime, W_demonslayer, W_kimetsunoyaiba}
CharacterTags == {W_tanjiro, W_nezuko, W_zenitsu, W_inosuke}
FranchiseTags == CharacterTags \cup {W_demonslayer}

CommonWords ==
    { <<"a">>, <<"a","n">>, <<"t","h","e">>, <<"o","f">>, <<"f","o","r">>,
      <<"i","n">>, <<"o","n">>, <<"a","t">>, <<"b","y">>, <<"w","i","t","h">>,
      <<"a","b","o","u","t">> }

PriorityKeywords == {W_anime, W_demon, W_slayer, W_nezuko, W_tanjiro, W_zenitsu}

(***************************************************************************)
(* The query normalizer.                                                   *)
(***************************************************************************)
\* the end of the run of word characters that starts at position i
RECURSIVE WordEnd(_, _)
WordEnd(s, i) == IF i <= Len(s) /\ IsWordChar(s[i]) THEN WordEnd(s, i + 1) ELSE i

\* one left-to-right scan for the pattern #(\w+): the captured groups
\* (re.findall) and the text with the matches removed (re.sub)
RECURSIVE HashtagScan(_, _)
HashtagScan(s, i) ==
    IF i > Len(s) THEN [tags |-> <<>>, rest |-> <<>>]
    ELSE IF s[i] = "#" /\ WordEnd(s, i + 1) > i + 1
         THEN LET e == WordEnd(s, i + 1)
                  r == HashtagScan(s, e)
              IN  [tags |-> <<SubSeq(s, i + 1, e - 1)>> \o r.tags, rest |-> r.rest]
         ELSE LET r == HashtagScan(s, i + 1)
              IN  [tags |-> r.tags, rest |-> <<s[i]>> \o r.rest]

\* an extraction that leaves the base query empty when only hashtags remain
_extract_hashtags_no_adopt(query) ==
    LET scan == HashtagScan(query, 1)
    IN  [query |-> Strip(scan.rest), hashtags |-> scan.tags]

_extract_hashtags(query) ==
    LET scan == HashtagScan(query, 1)
        hashtags == scan.tags
        cleaned == Strip(scan.rest)
    IN  [query |-> IF cleaned = <<>> /\ hashtags # <<>> THEN hashtags[1] ELSE cleaned,
         hashtags |-> hashtags]

\* re.sub(r'[^\w\s]', '', query.lower())
StripPunctuation(s) == LET keep(c) == IsWordChar(c) \/ IsSpace(c) IN SelectSeq(s, keep)

_clean_search_query(query) ==
    LET q == StripPunctuation(Lower(query))
        keepWord(w) == w \notin CommonWords /\ Len(w) > 2
        words == SelectSeq(Split(q), keepWord)
        isPriority(w) == w \in PriorityKeywords
        priority_words == SelectSeq(words, isPriority)
        ordered == IF priority_words # <<>>
                   THEN priority_words \o RemoveAll(words, priority_words)
                   ELSE words
    IN  IF ordered = <<>> THEN q ELSE Join(ordered)

(***************************************************************************)
(* The strategy planner (search_memes, the list search_strategies).        *)
(***************************************************************************)
\* f"{a} {b}"
Spaced(a, b) == a \o <<" ">> \o b

\* [f"{a} {c}" for a in xs for c in ys]
Pairs(xs, ys) ==
    [k \in 1..(Len(xs) * Len(ys)) |->
        Spaced(xs[((k - 1) \div Len(ys)) + 1], ys[((k - 1) % Len(ys)) + 1])]

\* a plan that always adds the base query with "meme"
SearchStrategies_with_meme(topic, main_query, hashtags) ==
    <<main_query, Spaced(main_query, W_meme)>>

\* a plan that tries the hashtags before the base query
SearchStrategies_hashtags_first(topic, main_query, hashtags) ==
    hashtags \o <<main_query>> \o [i \in DOMAIN hashtags |-> Spaced(main_query, hashtags[i])]

SearchStrategies(topic, main_query, hashtags) ==
    LET base == IF main_query # <<>> THEN <<main_query>> ELSE <<>>
        combined == IF main_query # <<>>
                    THEN [i \in DOMAIN hashtags |-> Spaced(main_query, hashtags[i])]
                    ELSE <<>>
        isAnime(t) == t \in AnimeTags
        isCharacter(t) == t \in CharacterTags
        anime_tags == SelectSeq(hashtags, isAnime)
        character_tags == SelectSeq(hashtags, isCharacter)
        planned == base \o (IF hashtags # <<>>
                            THEN hashtags \o combined \o Pairs(anime_tags, character_tags)
                            ELSE <<>>)
    IN  IF planned = <<>> THEN <<_clean_search_query(topic)>> ELSE planned

(***************************************************************************)
(* URLs and JSON values.                                                   *)
(***************************************************************************)
JAbsent == [type |-> "absent"]
JStr(v) == [type |-> "str", val |-> v]
JList(v) == [type |-> "list", val |-> v]
JNum(v) == [type |-> "num", val |-> v]
JBool(v) == [type |-> "bool", val |-> v]

\* hash(v) raises TypeError for a list or a dict
Hashable(j) == j.type \notin {"list", "dict"}

U_direct1 == <<"https://", "i.redd.it", "/a", ".jpg">>
U_direct2 == <<"https://", "i.imgur.com", "/b", ".gif">>
U_page == <<"https://", "example.com", "/page">>
U_preview_encoded ==
    <<"https://", "external-preview.redd.it", "/c", ".jpg", "?width=640", "&amp;", "s=1">>
U_preview ==
    <<"https://", "external-preview.redd.it", "/c", ".jpg", "?width=640", "&", "s=1">>
U_external_i == <<"https://", "external-i.redd.it", "/d", ".png">>

\* url.replace("&amp;", "&")
UnescapeAmp(url) == [i \in DOMAIN url |-> IF url[i] = "&amp;" THEN "&" ELSE url[i]]

\* pairs <<a, b>> of segments with a a proper substring of b
ProperSubstrings ==
    { <<"preview.redd.it", "external-preview.redd.it">>,
      <<"i.redd.it", "external-i.redd.it">> }

\* host in url
HostIn(host, url) ==
    \E i \in DOMAIN url : url[i] = host \/ <<host, url[i]>> \in ProperSubstrings

InvalidHosts == {"external-preview.redd.it", "external-i.redd.it"}

\* a filter that accepts every url
is_valid_reddit_image_url_open(url) == TRUE

is_valid_reddit_image_url(url) == \A host \in InvalidHosts : ~HostIn(host, url)

(***************************************************************************)
(* Provider payloads (Reddit search listings).                             *)
(***************************************************************************)
NoPreview == [present |-> FALSE, images |-> <<>>]
PreviewOf(images) == [present |-> TRUE, images |-> images]

\* one child of data.children
P_self ==
    [url |-> JStr(U_direct1), has_data |-> TRUE, is_self |-> JBool(TRUE),
     preview |-> NoPreview, title |-> JStr("t1")]
P_image ==
    [url |-> JStr(U_direct1), has_data |-> TRUE, is_self |-> JBool(FALSE),
     preview |-> NoPreview, title |-> JStr("t1")]
P_gif ==
    [url |-> JStr(U_direct2), has_data |-> TRUE, is_self |-> JBool(FALSE),
     preview |-> NoPreview, title |-> JStr("t2")]
P_preview ==
    [url |-> JStr(U_page), has_data |-> TRUE, is_self |-> JBool(FALSE),
     preview |-> PreviewOf(<<[gif |-> JAbsent, source |-> JStr(U_preview_encoded)]>>),
     title |-> JAbsent]
P_bad_preview ==
    [url |-> JStr(U_page), has_data |-> TRUE, is_self |-> JBool(FALSE),
     preview |-> PreviewOf(<<[gif |-> JAbsent, source |-> JAbsent]>>),
     title |-> JStr("t1")]
P_no_media ==
    [url |-> JStr(U_page), has_data |-> TRUE, is_self |-> JAbsent,
     preview |-> NoPreview, title |-> JStr("t2")]
P_list_title ==
    [url |-> JStr(U_direct2), has_data |-> TRUE, is_self |-> JBool(FALSE),
     preview |-> NoPreview, title |-> JList("t2")]
P_no_data ==
    [url |-> JAbsent, has_data |-> FALSE, is_self |-> JAbsent,
     preview |-> NoPreview, title |-> JAbsent]

Posts ==
    {P_self, P_image, P_gif, P_preview, P_bad_preview, P_no_media, P_list_title, P_no_data}

SeqsUpTo(S, n) == UNION { [1..k -> S] : k \in 0..n }

\* what requests.get gives: an exception (transport error, timeout), or a
\* response with a status code and a body
R_exception == [exc |-> TRUE, status_code |-> 0, body |-> [type |-> "none"]]
R_status500 == [exc |-> FALSE, status_code |-> 500, body |-> [type |-> "notjson"]]
R_notjson == [exc |-> FALSE, status_code |-> 200, body |-> [type |-> "notjson"]]
R_number == [exc |-> FALSE, status_code |-> 200, body |-> [type |-> "num"]]
R_no_children == [exc |-> FALSE, status_code |-> 200, body |-> [type |-> "object", has_children |-> FALSE]]
R_listing(children) ==
    [exc |-> FALSE, status_code |-> 200,
     body |-> [type |-> "object", has_children |-> TRUE, children |-> children]]

FailedResponses == {R_exception, R_status500, R_notjson, R_number, R_no_children}

Responses == FailedResponses \cup { R_listing(ps) : ps \in SeqsUpTo(Posts, MaxPosts) }

(***************************************************************************)
(* The Reddit adapter, _search_reddit.                                     *)
(***************************************************************************)
\* a list with a sixth sub-source
subreddits_six ==
    <<"animemes", "anime_irl", "animememes", "goodanimemes", "KimetsuNoYaiba", "memes">>

subreddits == <<"animemes", "anime_irl", "animememes", "goodanimemes", "KimetsuNoYaiba">>

\* results[:limit]
Take(xs, n) == SubSeq(xs, 1, IF n < 0 THEN Len(xs) + n ELSE IF n < Len(xs) THEN n ELSE Len(xs))

Meme(title, source, content_type, url, tags) ==
    [tags |-> tags, url |-> url, title |-> title,
     source |-> source, content_type |-> content_type]

ImageSuffixes == {".jpg", ".jpeg", ".png"}

\* the body of the loop over data.children for one post: "skip" (continue),
\* "raise" (an exception that leaves the loop) or "meme"
ParsePost(post, subreddit) ==
    IF ~post.has_data THEN [kind |-> "raise"]
    ELSE IF post.is_self.type = "absent" \/ post.is_self.val = TRUE THEN [kind |-> "skip"]
    ELSE IF post.url.type \notin {"absent", "str"} THEN [kind |-> "raise"]
    ELSE
      LET url == post.url.val
          direct ==
              IF post.url.type = "absent" \/ url = <<>> THEN [found |-> FALSE]
              ELSE IF url[Len(url)] \in ImageSuffixes
                   THEN [url |-> url, content_type |-> "image", found |-> TRUE]
              ELSE IF url[Len(url)] = ".gif"
                   THEN [url |-> url, content_type |-> "gif", found |-> TRUE]
              ELSE [found |-> FALSE]
          image_info == post.preview.images[1]
          fromPreview ==
              IF ~post.preview.present \/ post.preview.images = <<>> THEN [kind |-> "none"]
              ELSE IF image_info.gif.type = "str"
                   THEN [url |-> UnescapeAmp(image_info.gif.val), content_type |-> "gif",
                         kind |-> "url"]
              ELSE IF image_info.source.type = "str"
                   THEN [url |-> UnescapeAmp(image_info.source.val), content_type |-> "image",
                         kind |-> "url"]
              ELSE [kind |-> "except"]
          title == IF post.title.type = "absent" THEN JStr("Untitled Meme") ELSE post.title
          source == <<"Reddit r/", subreddit>>
      IN  IF direct.found
          THEN [kind |-> "meme",
                meme |-> Meme(title, source, direct.content_type, direct.url, <<>>)]
          ELSE IF fromPreview.kind = "url" /\ fromPreview.url # <<>>
               THEN [kind |-> "meme",
                     meme |-> Meme(title, source, fromPreview.content_type,
                                   fromPreview.url, <<>>)]
          ELSE [kind |-> "skip"]

\* for post in data["data"]["children"]: ... ; raised tells whether an
\* exception left the loop
RECURSIVE ProcessPosts(_, _, _, _)
ProcessPosts(children, results, limit, subreddit) ==
    IF children = <<>> \/ Len(results) >= limit
    THEN [results |-> results, raised |-> FALSE]
    ELSE LET parsed == ParsePost(Head(children), subreddit)
         IN  IF parsed.kind = "raise" THEN [results |-> results, raised |-> TRUE]
             ELSE IF parsed.kind = "skip"
                  THEN ProcessPosts(Tail(children), results, limit, subreddit)
             ELSE ProcessPosts(Tail(children), Append(results, parsed.meme), limit, subreddit)

\* the inner try block of one pass of the loop over subreddits: the request
\* and the reading of its response
RedditTry(response, results, limit, subreddit) ==
    IF response.exc THEN [results |-> results, raised |-> TRUE]
    ELSE IF response.status_code # 200 THEN [results |-> results, raised |-> FALSE]
    ELSE IF response.body.type # "object" THEN [results |-> results, raised |-> TRUE]
    ELSE IF ~response.body.has_children THEN [results |-> results, raised |-> FALSE]
    ELSE ProcessPosts(response.body.children, results, limit, subreddit)

\* an except clause that lets the exception leave the loop over subreddits
RedditExcept_propagate(outcome) == outcome

\* except Exception as e: print(...); continue
RedditExcept(outcome) == [results |-> outcome.results, raised |-> FALSE]

\* one pass of the loop over subreddits
RedditPass(response, results, limit, subreddit) ==
    LET outcome == RedditTry(response, results, limit, subreddit)
    IN  IF outcome.raised THEN RedditExcept(outcome) ELSE outcome

(***************************************************************************)
(* _search_online and search_memes: merging and deduplication.             *)
(***************************************************************************)
\* for meme in more: if not any(r.url == meme.url for r in results): append
RECURSIVE MergeByUrl(_, _)
MergeByUrl(results, more) ==
    IF more = <<>> THEN results
    ELSE IF \E i \in DOMAIN results : results[i].url = Head(more).url
         THEN MergeByUrl(results, Tail(more))
         ELSE MergeByUrl(Append(results, Head(more)), Tail(more))

\* for tag in hashtags: if tag not in meme.tags: meme.tags.append(tag)
RECURSIVE AddTags(_, _)
AddTags(tags, hashtags) ==
    IF hashtags = <<>> THEN tags
    ELSE IF Head(hashtags) \in Range(tags) THEN AddTags(tags, Tail(hashtags))
    ELSE AddTags(Append(tags, Head(hashtags)), Tail(hashtags))

\* if hashtags and meme.tags: ...
AttachHashtags(meme, hashtags) ==
    IF hashtags # <<>> /\ meme.tags # <<>>
    THEN [meme EXCEPT !.tags = AddTags(meme.tags, hashtags)]
    ELSE meme

\* meme_id = (meme.title, meme.url)
MemeId(meme) == <<meme.title, meme.url>>

\* meme_id in seen
AlreadySeen(meme, seen) == MemeId(meme) \in seen

\* the "Remove duplicates" loop of search_memes; hashing an unhashable title
\* raises TypeError out of the loop
RECURSIVE DedupLoop(_, _, _, _)
DedupLoop(results, unique_results, seen, hashtags) ==
    IF results = <<>>
    THEN [raised |-> FALSE, seen |-> seen, unique_results |-> unique_results]
    ELSE LET meme == Head(results)
         IN  IF ~Hashable(meme.title)
             THEN [raised |-> TRUE, seen |-> seen, unique_results |-> unique_results]
             ELSE IF AlreadySeen(meme, seen)
                  THEN DedupLoop(Tail(results), unique_results, seen, hashtags)
             ELSE DedupLoop(Tail(results),
                            Append(unique_results, AttachHashtags(meme, hashtags)),
                            seen \cup {MemeId(meme)}, hashtags)

\* a merge that appends without consulting seen
MergeSeen_append(more, unique_results, seen) ==
    [raised |-> FALSE, seen |-> seen, unique_results |-> unique_results \o more]

\* the merge loops of the generic retries (no hashtags are attached there)
MergeSeen(more, unique_results, seen) == DedupLoop(more, unique_results, seen, <<>>)

\* a return without the slice
ReturnSlice_all(unique_results, limit) == unique_results

\* unique_results[:limit]
ReturnSlice(unique_results, limit) == Take(unique_results, limit)

\* a guard without the strip() test
IsBlank_empty_only(topic) == topic = <<>>

\* not topic or topic.strip() == ""
IsBlank(topic) == topic = <<>> \/ Strip(topic) = <<>>

(***************************************************************************)
(* Display formatting.                                                     *)
(***************************************************************************)
None == [some |-> FALSE]
Some(v) == [val |-> v, some |-> TRUE]

\* str(title)
TitleText(title) ==
    IF title.type = "str" THEN <<title.val>> ELSE <<"['", title.val, "']">>

format_meme_for_display(meme) ==
    IF meme.content_type = "text"
    THEN [text |-> <<"(memo) **">> \o TitleText(meme.title) \o <<"**: ">> \o meme.url,
          image_url |-> None]
    ELSE [text |-> <<"(frame) **">> \o TitleText(meme.title) \o <<"**">>,
          image_url |-> Some(meme.url)]

\* f"I couldn't find any memes related to '{topic}'", None
NotFound(topic) ==
    [text |-> <<"I couldn't find any memes related to '">> \o topic \o <<"'">>,
     image_url |-> None]

(***************************************************************************)
(* The state of the retrieval engine.  A call of search_memes issues its   *)
(* provider requests one after another; the state between two requests is  *)
(* the stack of the three activations search_memes, _search_online and     *)
(* _search_reddit.                                                         *)
(***************************************************************************)
VARIABLES
    pc,       \* "idle", or "request": a call waits for a provider's response
    op,       \* the operation the caller invoked
    memes,    \* the locals of search_memes
    online,   \* the locals of _search_online
    reddit,   \* the locals of _search_reddit
    requested,\* whether the call has issued a provider request
    ret       \* the outcome of the last call that ended

searchVars == <<pc, op, memes, online, reddit, requested, ret>>

\* The state of the media cache.
VARIABLES
    cacheDir, \* whether the cache directory exists
    files,    \* the files of the cache directory: path -> "complete" or "partial"
    calls     \* the download_image calls made so far, oldest first

cacheVars == <<cacheDir, files, calls>>

\* The state of the normalizer when it is called on its own.
VARIABLES
    norm      \* the last call of a normalizer function and what it returned

normVars == <<norm>>

\* The override database and the MemeSearcher instances that loaded it.
VARIABLES
    dbFile,   \* the file at meme_db_path
    searcher, \* the instances: whether constructed, and their local_meme_db
    dbRet     \* the outcome of the last constructor or add_meme call

dbVars == <<dbFile, searcher, dbRet>>

\* The web chat.
VARIABLES
    chat_history,         \* the (message, response) pairs the chat shows
    conversation_history, \* the global copy of these pairs
    current_meme_topic,   \* the topic of the last meme command
    cache,        \* the entries of memory_agent.cache, oldest first
    webRet        \* how respond handled the last message

webVars == <<chat_history, conversation_history, current_meme_topic, cache, webRet>>

\* The memory agent (its cache is the variable cache above).
VARIABLES
    cache_file,    \* the file at memory_agent.cache_file
    last_analysis, \* memory_agent.last_analysis
    memRet         \* the outcome of the last call of a method of the agent

memVars == <<cache_file, last_analysis, memRet>>

vars ==
    <<pc, op, memes, online, reddit, requested, ret, cacheDir, files, calls, norm,
      dbFile, searcher, dbRet, chat_history, conversation_history, current_meme_topic,
      cache, webRet, cache_file, last_analysis, memRet>>

NoFrame == [active |-> FALSE]
NoRet == [op |-> [name |-> "none"]]

\* the outcome of a call: what it returned or that it raised, whether it issued
\* a request, and (history) how many results search_memes gathered, how many
\* of them were unique before the final slice, whether the except clause
\* of a one-request adapter reported an error, the plan search_memes
\* followed, and the memes an adapter had parsed from a payload when an
\* entry of that payload raised
Outcome(o, status, value, req, gathered, found, caught, plan, partial) ==
    [found |-> found, op |-> o, requested |-> req, status |-> status,
     value |-> value, gathered |-> gathered, caught |-> caught, plan |-> plan,
     partial |-> partial]

\* history of a search_memes activation: its base query, hashtags and
\* strategies, the queries it has passed to _search_online so far, and how
\* many unique results its strategy loop ended with
PlanOf(m) ==
    IF m.active
    THEN [hashtags |-> m.hashtags, main_query |-> m.main_query, active |-> TRUE,
          search_strategies |-> m.search_strategies, issued |-> m.issued,
          loop_found |-> m.loop_found, retry_returned |-> m.retry_returned]
    ELSE [active |-> FALSE]

NewMemes(topic, limit, extracted, strategies) ==
    [active |-> TRUE, topic |-> topic, limit |-> limit,
     main_query |-> extracted.query, hashtags |-> extracted.hashtags,
     search_strategies |-> strategies, si |-> 1, stage |-> "loop",
     results |-> <<>>, unique_results |-> <<>>, seen |-> {},
     \* history: how many results _search_online has handed over so far
     gathered |-> 0,
     \* history: the queries passed to _search_online so far, oldest first
     issued |-> <<>>,
     \* history: the number of unique results the strategy loop ended with
     loop_found |-> 0,
     \* history: how many results each generic retry returned
     retry_returned |-> <<>>]

NewOnline(query, limit) ==
    [query |-> query, results |-> <<>>, limit |-> limit, active |-> TRUE, phase |-> 1,
     \* history, kept for a call of _search_online made on its own: what the
     \* retries returned so far, oldest first
     offered |-> <<>>]

\* search_limit = max(10, limit * 3)
search_limit(limit) == IF limit * 3 > 10 THEN limit * 3 ELSE 10

\* requests.get(f"https://www.reddit.com/r/{subreddit}/search.json", params=...)
RedditRequest(subreddit, query, limit) ==
    [q |-> query, subreddit |-> subreddit, limit |-> search_limit(limit)]

NoRequest == [subreddit |-> "none"]

NewReddit(query, limit) ==
    [sub |-> 1, query |-> query, results |-> <<>>, limit |-> limit, active |-> TRUE,
     request |-> NoRequest,
     \* history, kept for a call of _search_reddit made on its own: the memes
     \* parsed from a payload before an entry of the same payload raised
     partial |-> <<>>]

\* a retry that asks for limit results whatever it holds already
RetryLimit_full(limit, results) == limit

\* limit=limit-len(results)
RetryLimit(limit, results) == limit - Len(results)

\* a configuration: the control point and the three activations
Config(p, o, m, on, r) ==
    [memes |-> m, pc |-> p, op |-> o, online |-> on, reddit |-> r, value |-> <<>>]

\* the control points where a configuration waits or ends
Halting == {"request", "shuffle", "return", "raised"}

\* any("meme" in s for s in search_strategies)
AnyStrategyHasMeme(strategies) ==
    \E i \in DOMAIN strategies : Contains(W_meme, strategies[i])

\* main_query in [...] or any(tag in [...] for tag in hashtags)
IsFranchiseQuery(main_query, hashtags) ==
    main_query \in CharacterTags \/ \E i \in DOMAIN hashtags : hashtags[i] \in FranchiseTags

\* a loop that never stops early
LoopBreaks_never(strategy_results, results, limit) == FALSE

\* if strategy_results: results.extend(...); if len(results) >= limit: break
LoopBreaks(strategy_results, results, limit) ==
    strategy_results # <<>> /\ Len(results) >= limit

\* generic retries whatever the strategy loop found
RetriesWanted_always(unique_results) == TRUE

\* if not unique_results: (the generic retries)
RetriesWanted(unique_results) == unique_results = <<>>

\* one step of the control flow between two provider requests
Step(c) ==
    LET m == c.memes
        o == c.online
        r == c.reddit
    IN
    CASE c.pc = "strategy" ->
           \* for query in search_strategies: _search_online(query, limit=limit)
           IF m.si > Len(m.search_strategies) THEN [c EXCEPT !.pc = "dedup"]
           ELSE [c EXCEPT !.pc = "online_start",
                          !.online = NewOnline(m.search_strategies[m.si], m.limit),
                          !.memes.issued = Append(m.issued,
                              [query |-> m.search_strategies[m.si], class |-> "strategy"])]
      [] c.pc = "online_start" ->
           \* reddit_results = self._search_reddit(query, limit=limit)
           [c EXCEPT !.pc = "reddit_loop", !.reddit = NewReddit(o.query, o.limit)]
      [] c.pc = "reddit_loop" ->
           \* for subreddit in subreddits: if len(results) >= limit: break
           IF r.sub > Len(subreddits) \/ Len(r.results) >= r.limit
           THEN [c EXCEPT !.pc = "reddit_return"]
           ELSE [c EXCEPT !.pc = "request",
                          !.reddit.request =
                              RedditRequest(subreddits[r.sub], r.query, r.limit)]
      [] c.pc = "reddit_raised" ->
           \* except Exception as e: return []
           [c EXCEPT !.pc = "reddit_return", !.reddit.results = <<>>]
      [] c.pc = "reddit_return" ->
           \* return results[:limit]
           LET value == Take(r.results, r.limit)
           IN  IF c.op.name = "_search_reddit"
               THEN [c EXCEPT !.pc = "return", !.value = value]
               ELSE IF o.phase = 1
                    THEN [c EXCEPT !.pc = "online_alt", !.reddit = NoFrame,
                                   !.online.results = value]
               ELSE [c EXCEPT !.pc = IF o.phase = 2 THEN "online_anime" ELSE "online_return",
                              !.reddit = NoFrame,
                              !.online.results = MergeByUrl(o.results, value),
                              !.online.offered = IF c.op.name = "_search_online"
                                                  THEN o.offered \o value ELSE <<>>]
      [] c.pc = "online_alt" ->
           \* if len(results) < limit: alt_query = f"{query} meme"
           IF Len(o.results) < o.limit
           THEN [c EXCEPT !.pc = "reddit_loop", !.online.phase = 2,
                          !.reddit = NewReddit(Spaced(o.query, W_meme),
                                               RetryLimit(o.limit, o.results))]
           ELSE [c EXCEPT !.pc = "online_anime"]
      [] c.pc = "online_anime" ->
           \* if len(results) < limit: anime_query = f"anime {query}"
           IF Len(o.results) < o.limit
           THEN [c EXCEPT !.pc = "reddit_loop", !.online.phase = 3,
                          !.reddit = NewReddit(Spaced(W_anime, o.query),
                                               RetryLimit(o.limit, o.results))]
           ELSE [c EXCEPT !.pc = "online_return"]
      [] c.pc = "online_return" ->
           IF c.op.name = "_search_online"
           THEN [c EXCEPT !.pc = "return", !.value = o.results, !.online = NoFrame]
           ELSE IF m.stage = "loop"
           THEN \* if strategy_results: results.extend(...); if len(results) >= limit: break
                LET results == m.results \o o.results
                IN  IF LoopBreaks(o.results, results, m.limit)
                    THEN [c EXCEPT !.pc = "dedup", !.online = NoFrame,
                                   !.memes.results = results,
                                   !.memes.gathered = Len(results)]
                    ELSE [c EXCEPT !.pc = "strategy", !.online = NoFrame,
                                   !.memes.results = results, !.memes.si = m.si + 1,
                                   !.memes.gathered = Len(results)]
           ELSE \* the merge loop of a generic retry, inside try ... except
                LET merged == MergeSeen(o.results, m.unique_results, m.seen)
                IN  [c EXCEPT !.pc = IF m.stage = "meme" /\ ~merged.raised
                                     THEN "demon_check" ELSE "final",
                              !.online = NoFrame,
                              !.memes.unique_results = merged.unique_results,
                              !.memes.seen = merged.seen,
                              !.memes.retry_returned =
                                  Append(m.retry_returned, Len(o.results)),
                              !.memes.gathered = m.gathered + Len(o.results)]
      [] c.pc = "dedup" ->
           \* Remove duplicates
           LET d == DedupLoop(m.results, <<>>, {}, m.hashtags)
           IN  IF d.raised THEN [c EXCEPT !.pc = "raised"]
               ELSE [c EXCEPT !.pc = IF RetriesWanted(d.unique_results)
                                     THEN "meme_check" ELSE "final",
                              !.memes.unique_results = d.unique_results,
                              !.memes.seen = d.seen,
                              !.memes.loop_found = Len(d.unique_results)]
      [] c.pc = "meme_check" ->
           \* if not any("meme" in s for s in search_strategies)
           IF ~AnyStrategyHasMeme(m.search_strategies)
           THEN [c EXCEPT !.pc = "online_start", !.memes.stage = "meme",
                          !.online = NewOnline(Spaced(m.main_query, W_meme), m.limit),
                          !.memes.issued = Append(m.issued,
                              [query |-> Spaced(m.main_query, W_meme), class |-> "retry"])]
           ELSE [c EXCEPT !.pc = "demon_check"]
      [] c.pc = "demon_check" ->
           IF m.unique_results = <<>> /\ IsFranchiseQuery(m.main_query, m.hashtags)
           THEN [c EXCEPT !.pc = "online_start", !.memes.stage = "demon",
                          !.online = NewOnline(DemonSlayerAnime, m.limit),
                          !.memes.issued = Append(m.issued,
                              [query |-> DemonSlayerAnime, class |-> "retry"])]
           ELSE [c EXCEPT !.pc = "final"]
      [] c.pc = "final" ->
           \* if not unique_results: return []
           IF m.unique_results = <<>>
           THEN [c EXCEPT !.pc = "return", !.value = <<>>]
           ELSE [c EXCEPT !.pc = "shuffle"]

\* the steps up to the next control point where the call waits or ends;
\* each configuration is computed once
RECURSIVE Run(_)
Run(c) == CHOOSE r \in { IF d.pc \in Halting THEN d ELSE Run(Step(d)) : d \in {c} } : TRUE

(***************************************************************************)
(* Inputs.                                                                 *)
(***************************************************************************)
W_cat == <<"c","a","t">>
T_empty == <<>>
T_blank == <<" ", " ">>
\* "Nezuko"
T_nezuko == <<"N">> \o Tail(W_nezuko)
\* "#tanjiro"
T_hashtag == <<"#">> \o W_tanjiro
\* "cat #Anime #tanjiro "
T_mixed == W_cat \o <<" ", "#", "A">> \o Tail(W_anime) \o <<" ", "#">> \o W_tanjiro \o <<" ">>
\* "Cat #tanjiro"
T_cat_hashtag == <<"C", "a", "t", " ", "#">> \o W_tanjiro
\* "cat meme"
T_cat_meme == Spaced(W_cat, W_meme)

\* "the cat!"
T_the_cat == <<"t", "h", "e", " ">> \o W_cat \o <<"!">>

Topics == {T_empty, T_blank, T_nezuko, T_hashtag, T_cat_hashtag, T_cat_meme}
Queries == {W_cat, W_nezuko}
Limits == 1..MaxLimit
\* the limits of _search_reddit called on its own: 0, the limits above, and
\* one whose triple exceeds the floor of search_limit
RedditLimits == 0..MaxLimit \cup {2 * MaxLimit}

(***************************************************************************)
(* Operations of the retrieval engine.                                     *)
(***************************************************************************)
SearchInit ==
    /\ pc = "idle"
    /\ op = [name |-> "none"]
    /\ memes = NoFrame
    /\ online = NoFrame
    /\ reddit = NoFrame
    /\ requested = FALSE
    /\ ret = NoRet

\* random.shuffle(xs) with the permutation p
Shuffled(xs, p) == [i \in DOMAIN xs |-> xs[p[i]]]

\* the orders random.shuffle can leave unique_results in
ShuffleChoices(c) ==
    IF c.pc = "shuffle" THEN Permutations(DOMAIN c.memes.unique_results) ELSE {<<>>}

\* what the call returns to its caller when the configuration c has ended
Returned(c, p) ==
    LET value == IF c.pc = "shuffle"
                 THEN ReturnSlice(Shuffled(c.memes.unique_results, p), c.memes.limit)
                 ELSE c.value
    IN  IF c.op.name = "get_related_meme"
        THEN (IF value = <<>> THEN NotFound(c.op.arg) ELSE format_meme_for_display(value[1]))
        ELSE value

\* the configuration c becomes the state: the call waits for the next
\* response, or it has ended and its outcome is recorded
CommitValue(c, n) ==
    \E p \in ShuffleChoices(c) :
        /\ pc' = IF c.pc = "request" THEN "request" ELSE "idle"
        /\ op' = IF c.pc = "request" THEN c.op ELSE [name |-> "none"]
        /\ memes' = IF c.pc = "request" THEN c.memes ELSE NoFrame
        /\ online' = IF c.pc = "request" THEN c.online ELSE NoFrame
        /\ reddit' = IF c.pc = "request" THEN c.reddit ELSE NoFrame
        /\ requested' = IF c.pc = "request" THEN n ELSE FALSE
        /\ ret' = IF c.pc = "request" THEN NoRet
                  ELSE Outcome(c.op, IF c.pc = "raised" THEN "raised" ELSE "returned",
                               IF c.pc = "raised" THEN <<>> ELSE Returned(c, p), n,
                               IF c.memes.active THEN c.memes.gathered ELSE 0,
                               IF c.memes.active THEN Len(c.memes.unique_results) ELSE 0,
                               FALSE, PlanOf(c.memes),
                               IF c.reddit.active THEN c.reddit.partial ELSE <<>>)
        /\ UNCHANGED <<cacheVars, normVars, dbVars, webVars, memVars>>

\* the configuration is computed once, then committed
Commit(config, n) == \E c \in {config} : CommitValue(c, n)

\* search_memes up to its first provider request
EnterSearchMemes(o, topic, limit) ==
    IF IsBlank(topic)
    THEN [Config("return", o, NoFrame, NoFrame, NoFrame) EXCEPT !.value = <<>>]
    ELSE LET extracted == _extract_hashtags(Strip(Lower(topic)))
             strategies == SearchStrategies(topic, extracted.query, extracted.hashtags)
         IN  Run(Config("strategy", o,
                        NewMemes(topic, limit, extracted, strategies), NoFrame, NoFrame))

SearchMemes(topic, limit) ==
    /\ pc = "idle"
    /\ Commit(EnterSearchMemes([limit |-> limit, name |-> "search_memes", arg |-> topic],
                               topic, limit), FALSE)

\* memes = self.search_memes(topic, limit=1)
GetRelatedMeme(topic) ==
    /\ pc = "idle"
    /\ Commit(EnterSearchMemes([limit |-> 1, name |-> "get_related_meme", arg |-> topic],
                               topic, 1), FALSE)

SearchOnline(query, limit) ==
    /\ pc = "idle"
    /\ Commit(Run(Config("online_start",
                         [limit |-> limit, name |-> "_search_online", arg |-> query],
                         NoFrame, NewOnline(query, limit), NoFrame)), FALSE)

SearchReddit(query, limit) ==
    /\ pc = "idle"
    /\ Commit(Run(Config("reddit_loop",
                         [limit |-> limit, name |-> "_search_reddit", arg |-> query],
                         NoFrame, NoFrame, NewReddit(query, limit))), FALSE)

\* the pending request to the next subreddit is answered, and the call runs
\* on to its next request or to its end
ProviderResponse(response) ==
    /\ pc = "request"
    /\ LET outcome == RedditPass(response, reddit.results, reddit.limit,
                                 subreddits[reddit.sub])
           tried == RedditTry(response, reddit.results, reddit.limit,
                              subreddits[reddit.sub])
           parsed == SubSeq(tried.results, Len(reddit.results) + 1, Len(tried.results))
           c == [Config(IF outcome.raised THEN "reddit_raised" ELSE "reddit_loop",
                        op, memes, online,
                        [reddit EXCEPT !.results = outcome.results, !.sub = @ + 1,
                                       !.partial = IF tried.raised /\ op.name = "_search_reddit"
                                                   THEN @ \o parsed ELSE @])
                 EXCEPT !.value = <<>>]
       IN  Commit(Run(c), TRUE)

(***************************************************************************)
(* The Tenor and Giphy adapters: one request each.                         *)
(***************************************************************************)
U_tenor == <<"https://", "media.tenor.com", "/e", ".gif">>
U_giphy == <<"https://", "media.giphy.com", "/f", ".gif">>

\* one element of a Tenor payload's "results"
TI_gif == [tags |-> JAbsent, url |-> JStr(U_tenor), title |-> JStr("t1"), has_gif |-> TRUE]
TI_tagged ==
    [tags |-> JList(<<JStr(T_nezuko)>>), url |-> JStr(U_tenor), title |-> JAbsent,
     has_gif |-> TRUE]
TI_no_gif == [tags |-> JAbsent, url |-> JAbsent, title |-> JStr("t1"), has_gif |-> FALSE]
TI_no_url == [tags |-> JAbsent, url |-> JAbsent, title |-> JStr("t2"), has_gif |-> TRUE]
TI_number_tag ==
    [tags |-> JList(<<JNum(7)>>), url |-> JStr(U_tenor), title |-> JStr("t2"),
     has_gif |-> TRUE]

TenorItems == {TI_gif, TI_tagged, TI_no_gif, TI_no_url, TI_number_tag}

\* for item in data["results"]: ...
RECURSIVE TenorItemsLoop(_, _, _)
TenorItemsLoop(items, results, query) ==
    IF items = <<>> THEN [results |-> results, raised |-> FALSE]
    ELSE LET item == Head(items)
             tagList == IF item.tags.type = "absent" THEN <<>> ELSE item.tags.val
             content_tags == [i \in DOMAIN tagList |-> Lower(tagList[i].val)]
         IN  IF ~item.has_gif THEN TenorItemsLoop(Tail(items), results, query)
             ELSE IF item.url.type = "absent" THEN [results |-> results, raised |-> TRUE]
             ELSE IF \E i \in DOMAIN tagList : tagList[i].type # "str"
                  THEN [results |-> results, raised |-> TRUE]
             ELSE TenorItemsLoop(
                      Tail(items),
                      Append(results,
                             Meme(IF item.title.type = "absent" THEN JStr("Anime GIF")
                                  ELSE item.title,
                                  <<"Tenor">>, "gif", item.url.val,
                                  IF content_tags # <<>> THEN content_tags ELSE <<query>>)),
                      query)

\* the try block of _search_tenor
TenorTry(response, query) ==
    IF response.exc THEN [results |-> <<>>, raised |-> TRUE]
    ELSE IF response.status_code # 200 THEN [results |-> <<>>, raised |-> FALSE]
    ELSE IF response.body.type # "object" THEN [results |-> <<>>, raised |-> TRUE]
    ELSE IF ~response.body.has_children THEN [results |-> <<>>, raised |-> FALSE]
    ELSE TenorItemsLoop(response.body.children, <<>>, query)

\* an except clause that lets the error through
AdapterExcept_reraise(outcome) == [status |-> "raised", value |-> <<>>, caught |-> TRUE]

\* except Exception as e: print(...); return []
AdapterExcept(outcome) == [status |-> "returned", value |-> <<>>, caught |-> TRUE]

_search_tenor(query, limit, response) ==
    LET outcome == TenorTry(response, query)
    IN  IF outcome.raised THEN AdapterExcept(outcome)
        ELSE [status |-> "returned", value |-> outcome.results, caught |-> FALSE]

\* one element of a Giphy payload's "data"
GI_gif == [url |-> JStr(U_giphy), title |-> JStr("t1"), has_original |-> TRUE]
GI_untitled == [url |-> JStr(U_giphy), title |-> JAbsent, has_original |-> TRUE]
GI_no_original == [url |-> JAbsent, title |-> JStr("t1"), has_original |-> FALSE]
GI_no_url == [url |-> JAbsent, title |-> JStr("t2"), has_original |-> TRUE]

GiphyItems == {GI_gif, GI_untitled, GI_no_original, GI_no_url}

\* for item in data["data"]: ...
RECURSIVE GiphyItemsLoop(_, _, _)
GiphyItemsLoop(items, results, query) ==
    IF items = <<>> THEN [results |-> results, raised |-> FALSE]
    ELSE LET item == Head(items)
             words == Split(query)
         IN  IF ~item.has_original THEN GiphyItemsLoop(Tail(items), results, query)
             ELSE IF item.url.type = "absent" THEN [results |-> results, raised |-> TRUE]
             ELSE GiphyItemsLoop(
                      Tail(items),
                      Append(results,
                             Meme(IF item.title.type = "absent" THEN JStr("Anime GIF")
                                  ELSE item.title,
                                  <<"Giphy">>, "gif", item.url.val,
                                  [i \in DOMAIN words |-> Strip(words[i])])),
                      query)

\* the try block of _search_giphy
GiphyTry(response, query) ==
    IF response.exc THEN [results |-> <<>>, raised |-> TRUE]
    ELSE IF response.status_code # 200 THEN [results |-> <<>>, raised |-> FALSE]
    ELSE IF response.body.type # "object" THEN [results |-> <<>>, raised |-> TRUE]
    ELSE IF ~response.body.has_children THEN [results |-> <<>>, raised |-> FALSE]
    ELSE GiphyItemsLoop(response.body.children, <<>>, query)

_search_giphy(query, limit, response) ==
    LET outcome == GiphyTry(response, query)
    IN  IF outcome.raised THEN AdapterExcept(outcome)
        ELSE [status |-> "returned", value |-> outcome.results, caught |-> FALSE]

TenorResponses == FailedResponses \cup { R_listing(is) : is \in SeqsUpTo(TenorItems, MaxPosts) }
GiphyResponses == FailedResponses \cup { R_listing(is) : is \in SeqsUpTo(GiphyItems, MaxPosts) }

\* a call of an adapter that issues one request: its outcome is recorded,
\* and (history) what its try block had parsed when it raised
AdapterCall(name, query, limit, outcome, tried) ==
    /\ pc = "idle"
    /\ ret' = Outcome([limit |-> limit, name |-> name, arg |-> query],
                       outcome.status, outcome.value, TRUE, 0, 0, outcome.caught,
                       PlanOf(NoFrame), IF tried.raised THEN tried.results ELSE <<>>)
    /\ UNCHANGED <<pc, op, memes, online, reddit, requested>>
    /\ UNCHANGED <<cacheVars, normVars, dbVars, webVars, memVars>>

SearchTenor(query, limit, response) ==
    AdapterCall("_search_tenor", query, limit, _search_tenor(query, limit, response),
                TenorTry(response, query))

SearchGiphy(query, limit, response) ==
    AdapterCall("_search_giphy", query, limit, _search_giphy(query, limit, response),
                GiphyTry(response, query))

(***************************************************************************)
(* The media cache of the web front end: download_image.                   *)
(***************************************************************************)
DownloadUrls == <<U_direct1, U_direct2, U_page, U_preview, U_external_i>>

\* hashlib.md5(url.encode()).hexdigest(): one digest per URL
Md5(url) == CHOOSE i \in DOMAIN DownloadUrls : DownloadUrls[i] = url

\* segments that contain a "/" and segments that start with "."
SlashSegments == {"https://", "/a", "/b", "/c", "/d", "/page"}
DotSegments == {".jpg", ".jpeg", ".png", ".gif"}

\* os.path.splitext(url)[-1]: from the last dot behind the last slash
SplitExt(url) ==
    LET slashes == { i \in DOMAIN url : url[i] \in SlashSegments }
        dots == { i \in DOMAIN url :
                    url[i] \in DotSegments /\ \A j \in slashes : j < i }
    IN  IF dots = {} THEN <<>>
        ELSE SubSeq(url, CHOOSE i \in dots : \A j \in dots : j <= i, Len(url))

\* os.path.join(cache_dir, f"{url_hash}{ext}")
CachePath(url) ==
    LET ext == IF SplitExt(url) = <<>> THEN <<".jpg">> ELSE SplitExt(url)
    IN  [ext |-> ext, dir |-> "image_cache", hash |-> Md5(url)]

\* a lookup that never finds the file
CacheHit_never(path, fs) == FALSE

\* os.path.exists(cache_path)
CacheHit(path, fs) == path \in DOMAIN fs

\* the file at path is created or overwritten with the given content
WriteFile(fs, path, content) ==
    [q \in DOMAIN fs \cup {path} |-> IF q = path THEN content ELSE fs[q]]

\* what can happen to one download
DownloadOutcomes ==
    {"makedirs_error", "connect_error", "http_error", "open_error",
     "stream_error", "write_error", "ok"}

\* download_image(url) when the cache directory holds the files fs and
\* exists or not (dir): the value returned, the directory afterwards, and
\* whether a request was issued.  os.makedirs(exist_ok=True) can only fail
\* while the directory does not exist.
download_image(url, dir, fs, outcome) ==
    IF ~is_valid_reddit_image_url(url)
    THEN [requested |-> FALSE, files |-> fs, dir |-> dir, result |-> None]
    ELSE IF outcome = "makedirs_error"
    THEN [requested |-> FALSE, files |-> fs, dir |-> dir, result |-> None]
    ELSE LET cache_path == CachePath(url)
         IN  IF CacheHit(cache_path, fs)
             THEN [requested |-> FALSE, files |-> fs, dir |-> TRUE,
                   result |-> Some(cache_path)]
             ELSE IF outcome \in {"connect_error", "http_error", "open_error"}
             THEN [requested |-> TRUE, files |-> fs, dir |-> TRUE, result |-> None]
             ELSE IF outcome \in {"stream_error", "write_error"}
             THEN [requested |-> TRUE, files |-> WriteFile(fs, cache_path, "partial"),
                   dir |-> TRUE, result |-> None]
             ELSE [requested |-> TRUE, files |-> WriteFile(fs, cache_path, "complete"),
                   dir |-> TRUE, result |-> Some(cache_path)]

CacheInit ==
    /\ cacheDir \in BOOLEAN
    /\ files = << >>
    /\ calls = << >>

DownloadImage(url, outcome) ==
    /\ Len(calls) < MaxCalls
    /\ outcome = "makedirs_error" => ~cacheDir
    /\ \E d \in {download_image(url, cacheDir, files, outcome)} :
          /\ cacheDir' = d.dir
          /\ files' = d.files
          /\ calls' = Append(calls, [url |-> url, requested |-> d.requested,
                                     result |-> d.result])
    /\ UNCHANGED <<searchVars, normVars, dbVars, webVars, memVars>>

CacheNext ==
    \E i \in DOMAIN DownloadUrls, outcome \in DownloadOutcomes :
        DownloadImage(DownloadUrls[i], outcome)

(***************************************************************************)
(* The normalizer functions called on their own.  Raw inputs are built     *)
(* from a few pieces; a second call feeds a function its own output.  The  *)
(* functions keep no state, so one run is one call and its repetition.     *)
(***************************************************************************)
\* the pieces raw inputs are made of: "#tanjiro", "#meme", "Anime", "the", ...
Pieces ==
    << <<"#">> \o W_tanjiro, <<"#">> \o W_meme, <<"A">> \o Tail(W_anime),
       <<"t","h","e">>, <<"a">>, W_cat, <<" ">>, <<"!">>, <<"#">> >>

RECURSIVE Concat(_)
Concat(ps) == IF ps = <<>> THEN <<>> ELSE Head(ps) \o Concat(Tail(ps))

\* the raw inputs: up to MaxPieces pieces one after another
RawInputs ==
    { Concat([i \in DOMAIN ix |-> Pieces[ix[i]]]) : ix \in SeqsUpTo(DOMAIN Pieces, MaxPieces) }

NoNorm == [name |-> "none"]

NormInit == norm = NoNorm

\* main_query, hashtags = self._extract_hashtags(topic.lower().strip())
ExtractHashtags(raw) ==
    /\ norm = NoNorm
    /\ norm' = [name |-> "_extract_hashtags", value |-> _extract_hashtags(Strip(Lower(raw))),
                arg |-> Strip(Lower(raw)), pass |-> 1]
    /\ UNCHANGED <<searchVars, cacheVars, dbVars, webVars, memVars>>

\* self._clean_search_query(topic)
CleanSearchQuery(raw) ==
    /\ norm = NoNorm
    /\ norm' = [name |-> "_clean_search_query", value |-> _clean_search_query(raw),
                arg |-> raw, pass |-> 1]
    /\ UNCHANGED <<searchVars, cacheVars, dbVars, webVars, memVars>>

\* the function of the last call is called again, on the query it returned
NormalizeAgain ==
    /\ norm.name # "none"
    /\ norm.pass = 1
    /\ norm' = IF norm.name = "_extract_hashtags"
               THEN [name |-> norm.name, value |-> _extract_hashtags(norm.value.query),
                     arg |-> norm.value.query, pass |-> 2]
               ELSE [name |-> norm.name, value |-> _clean_search_query(norm.value),
                     arg |-> norm.value, pass |-> 2]
    /\ UNCHANGED <<searchVars, cacheVars, dbVars, webVars, memVars>>

NormNext ==
    \/ \E raw \in RawInputs : ExtractHashtags(raw)
    \/ \E raw \in RawInputs : CleanSearchQuery(raw)
    \/ NormalizeAgain


(***************************************************************************)
(* The override database: the file at meme_db_path, and local_meme_db, the *)
(* dict from topic to list of Meme each instance keeps.  A dict is a       *)
(* sequence of items in insertion order.                                   *)
(***************************************************************************)
JNone == [type |-> "none"]

\* the file: absent, text that json.load cannot parse (a truncated write
\* among them), or the JSON value it holds
NoFile == [kind |-> "absent"]
Unparsable == [kind |-> "text"]
JsonFile(data) == [kind |-> "json", data |-> data]

EmptyDb == <<>>

\* k in db
HasKey(db, k) == \E i \in DOMAIN db : db[i].topic = k

\* db[k]
Get(db, k) == db[CHOOSE i \in DOMAIN db : db[i].topic = k].memes

\* the number of memes of all topics
RECURSIVE Size(_)
Size(db) == IF db = <<>> THEN 0 ELSE Len(Head(db).memes) + Size(Tail(db))

\* an add that replaces the list of the topic
AppendUnder_replace(db, k, meme) ==
    IF HasKey(db, k)
    THEN [i \in DOMAIN db |-> IF db[i].topic = k THEN [db[i] EXCEPT !.memes = <<meme>>]
                              ELSE db[i]]
    ELSE Append(db, [topic |-> k, memes |-> <<meme>>])

\* if k not in db: db[k] = []
\* db[k].append(meme)
AppendUnder(db, k, meme) ==
    IF HasKey(db, k)
    THEN [i \in DOMAIN db |-> IF db[i].topic = k THEN [db[i] EXCEPT !.memes = Append(@, meme)]
                              ELSE db[i]]
    ELSE Append(db, [topic |-> k, memes |-> <<meme>>])

\* a serialization that writes no tags
MemeToDict_no_tags(meme) ==
    [tags |-> <<>>, type |-> "dict", url |-> meme.url, title |-> meme.title,
     source |-> meme.source, content_type |-> meme.content_type, complete |-> TRUE]

\* {"title": meme.title, "source": meme.source, ...}
MemeToDict(meme) ==
    [tags |-> meme.tags, type |-> "dict", url |-> meme.url, title |-> meme.title,
     source |-> meme.source, content_type |-> meme.content_type, complete |-> TRUE]

\* Meme(title=meme["title"], source=meme["source"], ...)
DictToMeme(d) == Meme(d.title, d.source, d.content_type, d.url, d.tags)

\* serializable_db: the JSON object json.dump writes
Serialized(db) ==
    [type |-> "object",
     items |-> [i \in DOMAIN db |->
                  [topic |-> db[i].topic,
                   memes |-> [j \in DOMAIN db[i].memes |-> MemeToDict(db[i].memes[j])]]]]

\* a save that keeps the items the file holds and adds its own after them
SaveContent_merge(db, file) ==
    IF file.kind = "json" /\ file.data.type = "object"
    THEN [type |-> "object", items |-> file.data.items \o Serialized(db).items]
    ELSE Serialized(db)

\* what _save_meme_db writes: the whole of its own mapping
SaveContent(db, file) == Serialized(db)

\* what may happen to open(path, "w") and json.dump
WriteOutcomes == {"ok", "open_error", "write_error"}

\* with open(self.meme_db_path, "w") as f: json.dump(data, f, indent=4)
\* open truncates the file; an error while writing leaves it truncated
WriteJson(file, data, w) ==
    IF w = "ok" THEN JsonFile(data)
    ELSE IF w = "open_error" THEN file
    ELSE Unparsable

\* the try block of _load_local_memes
LoadTry(file) ==
    IF file.kind = "absent" THEN [raised |-> FALSE, returned |-> FALSE]
    ELSE IF file.kind # "json" THEN [raised |-> TRUE, returned |-> FALSE]
    ELSE IF file.data.type # "object" THEN [raised |-> TRUE, returned |-> FALSE]
    ELSE IF \E i \in DOMAIN file.data.items : \E j \in DOMAIN file.data.items[i].memes :
                ~file.data.items[i].memes[j].complete
         THEN [raised |-> TRUE, returned |-> FALSE]
    ELSE [raised |-> FALSE, returned |-> TRUE,
          meme_db |-> [i \in DOMAIN file.data.items |->
                         [topic |-> file.data.items[i].topic,
                          memes |-> [j \in DOMAIN file.data.items[i].memes |->
                                       DictToMeme(file.data.items[i].memes[j])]]]]

\* a loader that creates no file
_load_local_memes_no_create(file, w) ==
    [raised |-> FALSE,
     file |-> file, local_meme_db |-> IF LoadTry(file).returned THEN LoadTry(file).meme_db ELSE EmptyDb, write |-> "none"]

\* _load_local_memes: the mapping it returns and the file it leaves
_load_local_memes(file, w) ==
    IF LoadTry(file).returned
    THEN [raised |-> FALSE, file |-> file, local_meme_db |-> LoadTry(file).meme_db,
          write |-> "none"]
    ELSE [raised |-> FALSE, file |-> WriteJson(file, Serialized(EmptyDb), w),
          local_meme_db |-> EmptyDb, write |-> w]

\* _save_meme_db: the file it leaves and the value it returns
_save_meme_db(db, file, w) ==
    [value |-> w = "ok", file |-> WriteJson(file, SaveContent(db, file), w)]

\* add_meme: topic.lower() raises for a topic that is no string, and the
\* except clause returns False; otherwise the value of _save_meme_db is
\* dropped and True is returned
add_meme(db, topic, meme, file, w) ==
    IF topic.type # "str"
    THEN [value |-> FALSE, file |-> file, local_meme_db |-> db, write |-> "none"]
    ELSE [value |-> TRUE,
          file |-> _save_meme_db(AppendUnder(db, Lower(topic.val), meme), file, w).file,
          local_meme_db |-> AppendUnder(db, Lower(topic.val), meme), write |-> w]

Instances == {1, 2}
\* saved (history): whether the file has held the whole of local_meme_db as
\* it is now, read from it or written to it by this instance
NoSearcher == [local_meme_db |-> EmptyDb, constructed |-> FALSE, saved |-> FALSE]
NoDbRet == [name |-> "none"]

\* the memes add_meme is called with
M_a == Meme(JStr("a"), <<"curated">>, "image", U_direct1, <<W_meme>>)
M_b == Meme(JStr("b"), <<"curated">>, "gif", U_direct2, <<>>)
DbMemes == {M_a, M_b}

\* the topics add_meme is called with: "Nezuko", "cat", None
DbTopics == {JStr(T_nezuko), JStr(W_cat), JNone}

\* the files a first instance may find at meme_db_path: none, text that is
\* no JSON, a database of one meme, a JSON list, an entry without "url"
InitialFiles ==
    {NoFile, Unparsable,
     JsonFile(Serialized(<<[topic |-> W_nezuko, memes |-> <<M_b>>]>>)),
     JsonFile([type |-> "list"]),
     JsonFile([type |-> "object",
               items |-> <<[topic |-> W_cat,
                            memes |-> <<[MemeToDict(M_a) EXCEPT !.complete = FALSE]>>]>>])}

\* no instance exists
DbUnused == dbFile = NoFile /\ searcher = <<NoSearcher, NoSearcher>> /\ dbRet = NoDbRet

DbInit == dbFile \in InitialFiles /\ searcher = <<NoSearcher, NoSearcher>> /\ dbRet = NoDbRet

\* MemeSearcher(meme_db_path=...): self.local_meme_db = self._load_local_memes()
Construct(i, w) ==
    /\ ~searcher[i].constructed
    /\ \E l \in {_load_local_memes(dbFile, w)} :
          \* a call that writes nothing is taken once, not once for each w
          /\ l.write = w \/ w = "ok"
          /\ dbFile' = l.file
          /\ searcher' = [searcher EXCEPT ![i] = [local_meme_db |-> l.local_meme_db,
                                                  constructed |-> ~l.raised,
                                                  saved |-> l.write \in {"none", "ok"}]]
          /\ dbRet' = [raised |-> l.raised, name |-> "__init__", write |-> l.write,
                       inst |-> i]
    /\ UNCHANGED <<searchVars, cacheVars, normVars, webVars, memVars>>

\* searcher.add_meme(topic, meme)
AddMeme(i, topic, meme, w) ==
    /\ searcher[i].constructed
    /\ Size(searcher[i].local_meme_db) < MaxMemes
    /\ \E a \in {add_meme(searcher[i].local_meme_db, topic, meme, dbFile, w)} :
          /\ a.write = w \/ w = "ok"
          /\ dbFile' = a.file
          /\ searcher' = [searcher EXCEPT ![i].local_meme_db = a.local_meme_db,
                                          ![i].saved = IF a.write = "none" THEN @
                                                       ELSE a.write = "ok"]
          /\ dbRet' = [topic |-> topic, meme |-> meme, raised |-> FALSE,
                       name |-> "add_meme", value |-> a.value, write |-> a.write, inst |-> i]
    /\ UNCHANGED <<searchVars, cacheVars, normVars, webVars, memVars>>

DbNext ==
    \/ \E i \in Instances, w \in WriteOutcomes : Construct(i, w)
    \/ \E i \in Instances, topic \in DbTopics, meme \in DbMemes, w \in WriteOutcomes :
           AddMeme(i, topic, meme, w)

(***************************************************************************)
(* The memory agent (src/memory_agent.py): a deque of at most max_entries  *)
(* entries, saved to the cache file after every change.  An entry that was *)
(* recorded is a record with the fields user_input and response, which     *)
(* hold JSON values; a cache file may hold any JSON value.                 *)
(***************************************************************************)
\* deque(xs, maxlen=n): the last n elements of xs
LastN(xs, n) == IF Len(xs) > n THEN SubSeq(xs, Len(xs) - n + 1, Len(xs)) ELSE xs

\* a cache that drops the new entry when it is full
record_interaction_keep_oldest(entries, user_input, response) ==
    IF Len(entries) >= MaxEntries THEN entries
    ELSE Append(entries, [response |-> response, user_input |-> user_input])

\* self.cache.append(entry) on a deque(maxlen=max_entries); the timestamp of
\* the entry is left out
record_interaction(entries, user_input, response) ==
    LET appended == Append(entries, [response |-> response, user_input |-> user_input])
    IN  IF Len(appended) > MaxEntries THEN Tail(appended) ELSE appended

\* save_cache: json.dump(list(self.cache), f); an error is printed
save_cache(entries, file, w) == WriteJson(file, JList(entries), w)

\* load_cache: no file leaves the cache as it is; deque(cache_data, maxlen)
\* iterates a list, the keys of an object or the characters of a string and
\* raises for any other value; every error leaves an empty deque
load_cache(entries, file) ==
    IF file.kind = "absent" THEN entries
    ELSE IF file.kind # "json" THEN <<>>
    ELSE IF file.data.type = "list" THEN LastN(file.data.val, MaxEntries)
    ELSE IF file.data.type = "object"
         THEN LastN([i \in DOMAIN file.data.items |-> JStr(file.data.items[i].topic)],
                    MaxEntries)
    ELSE IF file.data.type = "str"
         THEN LastN([i \in DOMAIN file.data.val |-> JStr(<<file.data.val[i]>>)], MaxEntries)
    ELSE <<>>

\* xs[start:] for a start of either sign
SliceFrom(xs, start) ==
    LET first == IF start >= 0 THEN start
                 ELSE IF Len(xs) + start > 0 THEN Len(xs) + start ELSE 0
    IN  SubSeq(xs, first + 1, Len(xs))

\* get_recent_entries(count): count is None or Some(n)
get_recent_entries(entries, count) ==
    IF ~count.some THEN entries
    ELSE IF count.val > Len(entries) THEN entries
    ELSE SliceFrom(entries, 0 - count.val)

W_mission == <<"m","i","s","s","i","o","n">>
W_help == <<"h","e","l","p">>

\* the keywords of fallback_interest_analysis that the inputs below can
\* hold, in the order of the two dicts
DemonSlayerKeywords == <<W_nezuko, W_mission>>
GeneralKeywords == <<W_help, W_mission>>

\* entry["user_input"] can be evaluated
HasUserInput(entry) == "user_input" \in DOMAIN entry

\* {k: v for k, v in topics.items() if v > 0}, where v counts the entries
\* whose user_input.lower() holds k
CountedTopics(keywords, entries) ==
    LET counted == [k \in DOMAIN keywords |->
                      [topic |-> keywords[k],
                       count |-> Cardinality({i \in DOMAIN entries :
                                     Contains(keywords[k], Lower(entries[i].user_input.val))})]]
        positive(t) == t.count > 0
    IN  SelectSeq(counted, positive)

\* fallback_interest_analysis: entry["user_input"].lower() raises for an
\* entry without the key and for a user_input that is no string
fallback_interest_analysis(entries) ==
    IF \E i \in DOMAIN entries :
          ~HasUserInput(entries[i]) \/ entries[i].user_input.type # "str"
    THEN [raised |-> TRUE]
    ELSE [raised |-> FALSE,
          value |-> [demon_slayer_topics |-> CountedTopics(DemonSlayerKeywords, entries),
                     general_topics |-> CountedTopics(GeneralKeywords, entries),
                     summary |-> "keyword"]]

\* what the request to the LLM may give: a reply that json.loads parses, an
\* error of the request, a reply that is no JSON
LlmOutcomes == {"analysis", "request_error", "unparsable"}

\* the analysis parsed from the reply of the LLM
LlmAnalysis == [demon_slayer_topics |-> <<>>, general_topics |-> <<>>, summary |-> "llm"]

\* analyze_user_interests: the value it returns or that it raises, whether
\* it called the LLM, whether it ran the fallback, and self.last_analysis
analyze_user_interests(entries, last, llm) ==
    IF entries = <<>>
    THEN [raised |-> FALSE, last_analysis |-> last,
          value |-> [demon_slayer_topics |-> <<>>, general_topics |-> <<>>], llm_called |-> FALSE, fallback |-> FALSE]
    ELSE IF (\A i \in DOMAIN entries : HasUserInput(entries[i])) /\ llm = "analysis"
    THEN [raised |-> FALSE, last_analysis |-> LlmAnalysis, value |-> LlmAnalysis, llm_called |-> TRUE,
          fallback |-> FALSE]
    ELSE [raised |-> fallback_interest_analysis(entries).raised,
          last_analysis |-> last,
          value |-> IF fallback_interest_analysis(entries).raised THEN JNone
                    ELSE fallback_interest_analysis(entries).value,
          llm_called |-> \A i \in DOMAIN entries : HasUserInput(entries[i]), fallback |-> TRUE]

\* the user inputs: "Help Nezuko", "my mission"
I_help == <<"H","e","l","p"," ","N","e","z","u","k","o">>
I_mission == <<"m","y"," ","m","i","s","s","i","o","n">>
\* the interactions recorded: one with a reply, one without
Interactions == {<<JStr(I_help), JStr("reply")>>, <<JStr(I_mission), JNone>>}

\* the files a new agent may find at cache_file: none, text that is no
\* JSON, a list longer than max_entries, a list with an entry without
\* "user_input", a list with an entry whose user_input is null, a list of
\* numbers, a number, an object
InitialCacheFiles ==
    {NoFile, Unparsable,
     JsonFile(JList([i \in 1..(MaxEntries + 1) |->
                       [response |-> JStr("earlier"),
                        user_input |-> IF i % 2 = 1 THEN JStr(I_help) ELSE JStr(I_mission)]])),
     JsonFile(JList(<<[response |-> JStr("reply")]>>)),
     JsonFile(JList(<<[response |-> JNone, user_input |-> JNone]>>)),
     JsonFile(JList(<<JNum(1), JNum(2)>>)),
     JsonFile(JNum(7)),
     JsonFile([type |-> "object", items |-> <<[topic |-> W_cat, memes |-> <<>>]>>])}

\* the counts get_recent_entries is called with
Counts == {None} \cup { Some(n) : n \in 0..(MaxEntries + 1) }

NoMemRet == [name |-> "none"]

\* no agent is used beside the one of the web chat, which found no file
MemUnused == cache_file = NoFile /\ last_analysis = JNone /\ memRet = NoMemRet

\* MemoryAgent(cache_file=...): __init__ loads the cache
MemInit ==
    /\ cache_file \in InitialCacheFiles
    /\ cache = load_cache(<<>>, cache_file)
    /\ last_analysis = JNone
    /\ memRet = NoMemRet

\* agent.load_cache()
LoadCache ==
    /\ cache' = load_cache(cache, cache_file)
    /\ memRet' = [name |-> "load_cache"]
    /\ UNCHANGED <<cache_file, last_analysis>>
    /\ UNCHANGED <<chat_history, conversation_history, current_meme_topic, webRet>>
    /\ UNCHANGED <<searchVars, cacheVars, normVars, dbVars>>

\* agent.record_interaction(user_input, tanjiro_response)
RecordInteraction(user_input, response, w) ==
    /\ cache' = record_interaction(cache, user_input, response)
    /\ cache_file' = save_cache(cache', cache_file, w)
    /\ memRet' = [name |-> "record_interaction", write |-> w,
                  entry |-> [response |-> response, user_input |-> user_input]]
    /\ UNCHANGED last_analysis
    /\ UNCHANGED <<chat_history, conversation_history, current_meme_topic, webRet>>
    /\ UNCHANGED <<searchVars, cacheVars, normVars, dbVars>>

\* agent.clear_cache()
ClearCache(w) ==
    /\ cache' = <<>>
    /\ cache_file' = save_cache(cache', cache_file, w)
    /\ memRet' = [name |-> "clear_cache", write |-> w]
    /\ UNCHANGED last_analysis
    /\ UNCHANGED <<chat_history, conversation_history, current_meme_topic, webRet>>
    /\ UNCHANGED <<searchVars, cacheVars, normVars, dbVars>>

\* agent.get_recent_entries(count)
GetRecentEntries(count) ==
    /\ memRet' = [name |-> "get_recent_entries", value |-> get_recent_entries(cache, count),
                  count |-> count]
    /\ UNCHANGED <<cache, cache_file, last_analysis>>
    /\ UNCHANGED <<chat_history, conversation_history, current_meme_topic, webRet>>
    /\ UNCHANGED <<searchVars, cacheVars, normVars, dbVars>>

\* agent.analyze_user_interests()
AnalyzeUserInterests(llm) ==
    /\ \E a \in {analyze_user_interests(cache, last_analysis, llm)} :
          \* a call that makes no request is taken once, not once for each llm
          /\ a.llm_called \/ llm = "analysis"
          /\ last_analysis' = a.last_analysis
          /\ memRet' = [raised |-> a.raised, name |-> "analyze_user_interests",
                        value |-> a.value, llm |-> IF a.llm_called THEN llm ELSE "none",
                        llm_called |-> a.llm_called,
                        fallback |-> a.fallback]
    /\ UNCHANGED <<cache, cache_file>>
    /\ UNCHANGED <<chat_history, conversation_history, current_meme_topic, webRet>>
    /\ UNCHANGED <<searchVars, cacheVars, normVars, dbVars>>

MemoryNext ==
    \/ LoadCache
    \/ \E i \in Interactions, w \in WriteOutcomes : RecordInteraction(i[1], i[2], w)
    \/ \E w \in WriteOutcomes : ClearCache(w)
    \/ \E count \in Counts : GetRecentEntries(count)
    \/ \E llm \in LlmOutcomes : AnalyzeUserInterests(llm)

(***************************************************************************)
(* The web chat, tanjiro_web.respond, and the memory agent it records to.  *)
(***************************************************************************)
\* s.startswith(prefix)
StartsWith(s, prefix) == Len(s) >= Len(prefix) /\ SubSeq(s, 1, Len(prefix)) = prefix

\* s.lstrip("#")
RECURSIVE LStripHash(_)
LStripHash(s) == IF s # <<>> /\ Head(s) = "#" THEN LStripHash(Tail(s)) ELSE s

\* s[n:]
From(s, n) == SubSeq(s, n + 1, Len(s))

\* the commands of the help panel, as typed
C_history == <<"h", "i", "s", "t", "o", "r", "y">>
C_interests == <<"i", "n", "t", "e", "r", "e", "s", "t", "s">>
C_meme_nezuko == <<"m", "e", "m", "e", " ", "n", "e", "z", "u", "k", "o">>
C_meme_hashtag == <<"m", "e", "m", "e", " ", "#", "t", "a", "n", "j", "i", "r", "o">>
C_next_meme == <<"n", "e", "x", "t", " ", "m", "e", "m", "e">>
C_previous_meme == <<"p", "r", "e", "v", "i", "o", "u", "s", " ", "m", "e", "m", "e">>
C_add_meme == <<"a", "d", "d", " ", "m", "e", "m", "e", " ", "c", "a", "t", " ", "|", " ", "a", " ", "|", " ", "c", "u", "r", "a", "t", "e", "d", " ", "|", " ", "i", "m", "a", "g", "e", " ", "|", " ", "u", " ", "|", " ", "m", "e", "m", "e">>

\* the commands the help panel advertises
HelpPanel ==
    {C_history, C_interests, C_meme_nezuko, C_meme_hashtag, C_next_meme, C_previous_meme,
     C_add_meme}

\* the messages a user sends: the commands, "Interests", "hello", "memes",
\* and blank ones
Messages ==
    HelpPanel \cup {<<"I", "n", "t", "e", "r", "e", "s", "t", "s">>, <<"h", "e", "l", "l", "o">>, <<"m", "e", "m", "e", "s">>, <<>>, <<" ", " ">>}

\* the branch of respond that handles the message:
\* if not message.strip() / if message.lower() == "interests" /
\* if message.lower().startswith("meme ") / otherwise the chat with the LLM
Route(message) ==
    IF Strip(message) = <<>> THEN "ignored"
    ELSE IF Lower(message) = C_interests THEN "interests"
    ELSE IF StartsWith(Lower(message), <<"m", "e", "m", "e", " ">>) THEN "meme"
    ELSE "chat"

\* what the meme branch may answer: no meme found, a meme shown inline, a
\* meme shown as a link (the download failed), the report of an exception
MemeAnswers == {"none_found", "inline", "link", "error"}

\* what generate_response may return: the reply of the LLM, or the text
\* that reports an error of the API call
ChatAnswers == {"reply", "api_error"}

\* what respond may answer to the message
Answers(message) ==
    LET route == Route(message)
    IN  IF route = "meme" THEN MemeAnswers
        ELSE IF route = "chat" THEN ChatAnswers
        ELSE {route}

NoWebRet == [route |-> "none"]

ChatInit ==
    /\ chat_history = <<>>
    /\ conversation_history = <<>>
    /\ current_meme_topic = <<>>
    /\ webRet = NoWebRet

\* the chat and its memory agent, which found no cache file
WebInit == ChatInit /\ cache = <<>> /\ MemUnused

\* respond(message, chat_history); w is the outcome of both saves of the
\* cache, llm the outcome of the request analyze_user_interests makes, which
\* the interests command calls and generate_response calls for its context
Respond(message, answer, w) ==
    /\ Len(chat_history) < MaxChat
    /\ \E route \in {Route(message)} :
       \E llm \in (IF route = "chat" \/ (route = "interests" /\ cache # <<>>)
                   THEN LlmOutcomes ELSE {"none"}) :
          \* a message that saves nothing is taken once
          /\ route = "chat" \/ w = "ok"
          /\ chat_history' = IF route = "ignored" THEN chat_history
                             ELSE Append(chat_history, <<message, answer>>)
          /\ conversation_history' = IF route = "ignored" THEN conversation_history
                                     ELSE Append(conversation_history, <<message, answer>>)
          /\ current_meme_topic' = IF route = "meme"
                                   THEN LStripHash(Strip(From(message, 5)))
                                   ELSE current_meme_topic
          /\ cache' = IF route = "chat"
                      THEN record_interaction(record_interaction(cache, JStr(message), JNone),
                                              JStr(message), JStr(answer))
                      ELSE cache
          /\ cache_file' =
                IF route = "chat"
                THEN save_cache(cache',
                                save_cache(record_interaction(cache, JStr(message), JNone),
                                           cache_file, w),
                                w)
                ELSE cache_file
          /\ last_analysis' =
                IF route = "interests"
                THEN analyze_user_interests(cache, last_analysis, llm).last_analysis
                ELSE IF route = "chat"
                THEN analyze_user_interests(
                         record_interaction(cache, JStr(message), JNone),
                         last_analysis, llm).last_analysis
                ELSE last_analysis
          /\ webRet' = [llm |-> route = "chat", message |-> message, route |-> route,
                        recorded |-> IF route = "chat" THEN 2 ELSE 0]
    /\ UNCHANGED memRet
    /\ UNCHANGED <<searchVars, cacheVars, normVars, dbVars>>

\* clear_history()
ClearHistory ==
    /\ chat_history # <<>>
    /\ chat_history' = <<>>
    /\ conversation_history' = <<>>
    /\ UNCHANGED <<current_meme_topic, cache, webRet, memVars>>
    /\ UNCHANGED <<searchVars, cacheVars, normVars, dbVars>>

\* the chat saves its cache to a disk that takes every write
WebWrites == {"ok"}

WebNext ==
    \/ \E message \in Messages : \E answer \in Answers(message) :
          \E w \in WebWrites : Respond(message, answer, w)
    \/ ClearHistory

(***************************************************************************)
(* Specifications.                                                         *)
(***************************************************************************)
\* the retrieval engine alone: the media cache is not used
Init ==
    /\ SearchInit /\ cacheDir = FALSE /\ files = << >> /\ calls = << >> /\ NormInit
    /\ DbUnused /\ WebInit

\* the media cache alone
InitCache == SearchInit /\ CacheInit /\ NormInit /\ DbUnused /\ WebInit


SearchNext ==
    \/ \E topic \in Topics, limit \in Limits : SearchMemes(topic, limit)
    \/ \E topic \in Topics : GetRelatedMeme(topic)
    \/ \E query \in Queries, limit \in Limits : SearchOnline(query, limit)
    \/ \E query \in Queries, limit \in RedditLimits : SearchReddit(query, limit)
    \/ \E response \in Responses : ProviderResponse(response)
    \/ \E query \in Queries, limit \in 0..MaxLimit, response \in TenorResponses :
           SearchTenor(query, limit, response)
    \/ \E query \in Queries, limit \in 0..MaxLimit, response \in GiphyResponses :
           SearchGiphy(query, limit, response)

\* the retrieval engine
Spec == Init /\ [][SearchNext]_vars

\* the topics and responses that take search_memes through every class of
\* strategy and through both generic retries
PlanTopics == {T_nezuko, T_hashtag, T_mixed, T_cat_hashtag, T_cat_meme, T_the_cat}
PlanResponses ==
    {R_status500, R_listing(<<P_image>>), R_listing(<<P_gif>>), R_listing(<<P_list_title>>)}

PlanNext ==
    \/ \E topic \in PlanTopics, limit \in Limits : SearchMemes(topic, limit)
    \/ \E response \in PlanResponses : ProviderResponse(response)

\* search_memes alone, seen through its strategy plan
SpecPlan == Init /\ [][PlanNext]_vars

\* search_memes when every request is answered: requests.get blocks the
\* caller until the response, an error or its timeout of 10 seconds
LiveTopics == {T_nezuko, T_mixed}
LiveResponses == {R_status500, R_listing(<<P_image>>)}

LiveNext ==
    \/ \E topic \in LiveTopics, limit \in Limits : SearchMemes(topic, limit)
    \/ \E response \in LiveResponses : ProviderResponse(response)

SpecPlanLive ==
    /\ Init /\ [][LiveNext]_vars
    /\ WF_vars(\E response \in LiveResponses : ProviderResponse(response))

\* the media cache
SpecCache == InitCache /\ [][CacheNext]_vars

\* the normalizer
SpecNorm == Init /\ [][NormNext]_vars

\* the override database alone, with two instances
InitDb == SearchInit /\ cacheDir = FALSE /\ files = << >> /\ calls = << >> /\ NormInit
              /\ DbInit /\ WebInit
SpecDb == InitDb /\ [][DbNext]_vars

\* one instance: its override database and its searches
LocalTopics == {T_nezuko, W_cat}
LocalResponses == {R_status500, R_listing(<<P_image>>)}

LocalNext ==
    \/ \E w \in WriteOutcomes : pc = "idle" /\ Construct(1, w)
    \/ \E topic \in DbTopics, meme \in DbMemes, w \in WriteOutcomes :
           pc = "idle" /\ AddMeme(1, topic, meme, w)
    \/ \E topic \in LocalTopics : searcher[1].constructed /\ SearchMemes(topic, 1)
    \/ \E response \in LocalResponses : ProviderResponse(response)

SpecLocal == InitDb /\ [][LocalNext]_vars

\* the web chat
SpecWeb == Init /\ [][WebNext]_vars

\* the adapters, answered with payloads of up to MaxPayload entries
PayloadPosts == {P_image, P_gif, P_no_data}
PayloadResponses ==
    {R_status500} \cup { R_listing(ps) : ps \in SeqsUpTo(PayloadPosts, MaxPayload) }
TenorPayloads == { R_listing(is) : is \in SeqsUpTo({TI_gif, TI_tagged, TI_no_url}, MaxPayload) }
GiphyPayloads == { R_listing(is) : is \in SeqsUpTo({GI_gif, GI_untitled, GI_no_url}, MaxPayload) }

PayloadNext ==
    \/ \E limit \in Limits : SearchReddit(W_cat, limit)
    \/ \E response \in PayloadResponses : ProviderResponse(response)
    \/ \E limit \in Limits, response \in TenorPayloads : SearchTenor(W_cat, limit, response)
    \/ \E limit \in Limits, response \in GiphyPayloads : SearchGiphy(W_cat, limit, response)

SpecPayload == Init /\ [][PayloadNext]_vars

\* the memory agent alone
InitMemory ==
    /\ SearchInit /\ cacheDir = FALSE /\ files = << >> /\ calls = << >> /\ NormInit
    /\ DbUnused /\ ChatInit /\ MemInit
SpecMemory == InitMemory /\ [][MemoryNext]_vars


(***************************************************************************)
(* Properties of the retrieval engine (checked under Spec).                *)
(***************************************************************************)
SearchReturned == ret.op.name = "search_memes" /\ ret.status = "returned"

\* the hashtags search_memes extracts from the topic of the last call
ExtractedHashtags == _extract_hashtags(Strip(Lower(ret.op.arg))).hashtags

\* C1: search_memes(topic, limit) with limit >= 1 returns at most limit
\* results, whatever the providers answered.
C1_AtMostLimit == SearchReturned => Len(ret.value) <= ret.op.limit

\* a call that found more unique results than limit and returned limit of them
C1_Witness ==
    SearchReturned /\ ret.found > ret.op.limit /\ Len(ret.value) = ret.op.limit

\* C2: no two results of a returned sequence have the same (title, url) pair.
C2_NoDuplicates ==
    SearchReturned =>
        \A i, j \in DOMAIN ret.value :
            (ret.value[i].title = ret.value[j].title /\ ret.value[i].url = ret.value[j].url)
                => i = j

\* a call that gathered a duplicate, dropped it and returned two results
C2_Witness ==
    SearchReturned /\ ret.gathered > ret.found /\ Len(ret.value) >= 2

\* C3: every returned result carries every extracted hashtag in its tags.
C3_HashtagsAttached ==
    SearchReturned =>
        \A i \in DOMAIN ret.value :
            \A k \in DOMAIN ExtractedHashtags :
                ExtractedHashtags[k] \in Range(ret.value[i].tags)

\* C4: search_memes never raises, whatever the providers answer.
C4_NeverRaises == ret.op.name = "search_memes" => ret.status = "returned"

BlankTopics == {<<>>, <<" ", " ">>}

\* C5: for an empty or whitespace-only topic search_memes returns the empty
\* list, get_related_meme returns the not-found message with None, and no
\* provider request is issued in either call.
C5_BlankTopic ==
    /\ (pc = "request" /\ op.name \in {"search_memes", "get_related_meme"})
          => op.arg \notin BlankTopics
    /\ (ret.op.name = "search_memes" /\ ret.op.arg \in BlankTopics)
          => (ret.status = "returned" /\ ret.value = <<>> /\ ~ret.requested)
    /\ (ret.op.name = "get_related_meme" /\ ret.op.arg \in BlankTopics)
          => /\ ret.status = "returned"
             /\ ~ret.requested
             /\ ret.value.text =
                    <<"I couldn't find any memes related to '">> \o ret.op.arg \o <<"'">>
             /\ ret.value.image_url = [some |-> FALSE]

\* get_related_meme has answered a whitespace-only topic
C5_Witness ==
    ret.op.name = "get_related_meme" /\ ret.op.arg = <<" ", " ">> /\ ret.status = "returned"

\* C9: no adapter search raises: every call of _search_reddit, _search_tenor
\* and _search_giphy returns a list of memes, whatever the response was.
C9_AdaptersNeverRaise ==
    ret.op.name \in {"_search_reddit", "_search_tenor", "_search_giphy"} =>
        /\ ret.status = "returned"
        /\ \A i \in DOMAIN ret.value :
              ret.value[i].content_type \in {"text", "image", "gif"}

\* an adapter returned after its except clause handled an error
C9_Witness == ret.op.name = "_search_tenor" /\ ret.caught /\ ret.status = "returned"

\* C10: no result of the Reddit adapter family has a URL on a known-broken
\* CDN host.
C10_ValidUrls ==
    (ret.op.name \in {"_search_reddit", "_search_online", "search_memes"}
       /\ ret.status = "returned") =>
        \A i \in DOMAIN ret.value :
            \A k \in DOMAIN ret.value[i].url :
                ret.value[i].url[k] \notin {"external-preview.redd.it", "external-i.redd.it"}

(***************************************************************************)
(* Properties of the media cache (checked under SpecCache).                *)
(***************************************************************************)
BlockedUrls == {U_preview, U_external_i}

C7_NoPartialFile ==
    (calls # <<>> /\ ~calls[Len(calls)].result.some)
        => CachePath(calls[Len(calls)].url) \notin DOMAIN files

\* C8: a URL on a blocklisted host is rejected with None, before any request
\* and without a cache file being created.
C8_BlockedRejected ==
    \A i \in DOMAIN calls :
        calls[i].url \in BlockedUrls =>
            /\ ~calls[i].result.some
            /\ ~calls[i].requested
            /\ \A q \in DOMAIN files : q.hash # Md5(calls[i].url)

\* a blocklisted URL was passed to download_image
C8_Witness == \E i \in DOMAIN calls : calls[i].url \in BlockedUrls

(***************************************************************************)
(* Properties of the normalizer (checked under SpecNorm).                  *)
(***************************************************************************)
Extracted == norm.name = "_extract_hashtags" /\ norm.pass = 1
Cleaned == norm.name = "_clean_search_query" /\ norm.pass = 1

\* the text is one or more tokens "#word" separated by whitespace
IsHashtagList(s) ==
    /\ Split(s) # <<>>
    /\ \A i \in DOMAIN Split(s) :
          LET token == Split(s)[i]
          IN  /\ Head(token) = "#"
              /\ Len(token) >= 2
              /\ \A k \in 2..Len(token) : IsWordChar(token[k])

\* "#tanjiro #meme"
Q_tanjiro_meme == <<"#">> \o W_tanjiro \o <<" ", "#">> \o W_meme

\* C11: a query made only of hashtags yields the first hashtag as base query
\* and all hashtags, without '#', in the order they occur; "#tanjiro #meme"
\* yields base query "tanjiro" and hashtags tanjiro, meme.
C11_HashtagOnlyQuery ==
    /\ (Extracted /\ IsHashtagList(norm.arg)) =>
          /\ norm.value.hashtags = [i \in DOMAIN Split(norm.arg) |-> Tail(Split(norm.arg)[i])]
          /\ norm.value.query = Tail(Split(norm.arg)[1])
    /\ (Extracted /\ norm.arg = Q_tanjiro_meme) =>
          (norm.value.query = W_tanjiro /\ norm.value.hashtags = <<W_tanjiro, W_meme>>)

\* _extract_hashtags has been called on "#tanjiro #meme"
C11_Witness == Extracted /\ norm.arg = Q_tanjiro_meme

\* C17: normalizing the output of the normalizer again returns it unchanged:
\* _clean_search_query returns its own output as it is, and _extract_hashtags
\* returns its own base query as it is, with no hashtags.
C17_Idempotent ==
    norm.name # "none" /\ norm.pass = 2 =>
        IF norm.name = "_clean_search_query"
        THEN norm.value = norm.arg
        ELSE norm.value.query = norm.arg /\ norm.value.hashtags = <<>>

\* _clean_search_query has been called again on "anime cat", its output for
\* "cat Anime"
C17_Witness ==
    /\ norm.name = "_clean_search_query"
    /\ norm.pass = 2
    /\ norm.arg = Spaced(W_anime, W_cat)

\* C19: the extracted hashtags hold each distinct hashtag once, and no
\* hashtag is left in the base query.
C19_OrderedSet ==
    Extracted =>
        /\ \A i, j \in DOMAIN norm.value.hashtags :
              norm.value.hashtags[i] = norm.value.hashtags[j] => i = j
        /\ \A i \in 1..(Len(norm.value.query) - 1) :
              norm.value.query[i] = "#" => ~IsWordChar(norm.value.query[i + 1])

\* the tokens that survive the filtering of _clean_search_query
SurvivingTokens(raw) ==
    LET survives(w) == w \notin CommonWords /\ Len(w) > 2
    IN  SelectSeq(Split(StripPunctuation(Lower(raw))), survives)

\* C20: when no token survives, _clean_search_query returns the lowercased,
\* trimmed input verbatim; for an input that is not blank neither it nor the
\* base query of _extract_hashtags is empty.
C20_NeverEmpty ==
    /\ (Cleaned /\ SurvivingTokens(norm.arg) = <<>>) => norm.value = Strip(Lower(norm.arg))
    /\ (Cleaned /\ Strip(norm.arg) # <<>>) => norm.value # <<>>
    /\ (Extracted /\ norm.arg # <<>>) => norm.value.query # <<>>

(***************************************************************************)
(* Properties of the strategy plan (checked under SpecPlan).               *)
(***************************************************************************)
\* the search_memes call in progress or, failing that, the one that ended last
PlanCall == IF pc = "request" THEN op ELSE ret.op
CurrentPlan ==
    IF pc = "request" THEN PlanOf(memes)
    ELSE IF ret.op.name = "search_memes" THEN ret.plan
    ELSE [active |-> FALSE]

\* a search_memes call has returned after planning strategies
PlanReturned ==
    pc = "idle" /\ ret.op.name = "search_memes" /\ ret.status = "returned" /\ ret.plan.active

IssuedOf(class) ==
    LET in_class(e) == e.class = class IN SelectSeq(CurrentPlan.issued, in_class)

\* C12: a topic without hashtags has exactly one strategy, its base query
\* (the lowercased, trimmed topic), and the strategy loop issues nothing else.
C12_SingleStrategy ==
    (CurrentPlan.active /\ "#" \notin Range(PlanCall.arg)) =>
        /\ CurrentPlan.search_strategies = <<Strip(Lower(PlanCall.arg))>>
        /\ Len(IssuedOf("strategy")) <= 1
        /\ \A i \in DOMAIN IssuedOf("strategy") :
              IssuedOf("strategy")[i].query = Strip(Lower(PlanCall.arg))

\* search_memes("Nezuko") has returned after its one strategy was issued
C12_Witness ==
    PlanReturned /\ ret.op.arg = T_nezuko /\ Len(IssuedOf("strategy")) = 1

\* C13: no strategy occurs twice in the list of strategies.
C13_NoDuplicateStrategies ==
    CurrentPlan.active =>
        \A i, j \in DOMAIN CurrentPlan.search_strategies :
            CurrentPlan.search_strategies[i] = CurrentPlan.search_strategies[j] => i = j

\* C14: the strategies are the base query, then each hashtag, then the base
\* query with each hashtag, then the anime-tag x character-tag pairs; they
\* are issued in the order of the list, and every generic retry is issued
\* after the last strategy.
C14_PriorityOrder ==
    CurrentPlan.active =>
        LET q == CurrentPlan.main_query
            h == CurrentPlan.hashtags
            s == CurrentPlan.search_strategies
            n == Len(CurrentPlan.hashtags)
            issued == CurrentPlan.issued
        IN  /\ Len(s) >= 1 + 2 * n
            /\ s[1] = q
            /\ \A i \in 1..n : s[1 + i] = h[i] /\ s[1 + n + i] = q \o <<" ">> \o h[i]
            /\ { s[k] : k \in (2 + 2 * n)..Len(s) } =
                   { a \o <<" ">> \o c : a \in AnimeTags \cap Range(h),
                                         c \in CharacterTags \cap Range(h) }
            /\ \A i \in DOMAIN issued :
                  issued[i].class = "strategy" => (i <= Len(s) /\ issued[i].query = s[i])
            /\ \A i, j \in DOMAIN issued :
                  (i < j /\ issued[i].class = "retry") => issued[j].class = "retry"

\* search_memes("cat #Anime #tanjiro ") has issued all six strategies and
\* then a generic retry
C14_Witness ==
    /\ PlanReturned
    /\ ret.op.arg = T_mixed
    /\ Len(IssuedOf("strategy")) = 6
    /\ IssuedOf("retry") # <<>>

\* C15: a strategy is issued only while fewer than limit unique results
\* have been accumulated.
C15_StopsAtLimit ==
    (pc = "request" /\ memes.active /\ memes.stage = "loop") =>
        Cardinality({ <<memes.results[i].title, memes.results[i].url>> :
                        i \in DOMAIN memes.results }) < memes.limit

\* a second strategy is in progress after the first one found a result
C15_Witness ==
    pc = "request" /\ memes.active /\ memes.stage = "loop" /\ memes.si >= 2
        /\ memes.results # <<>>

\* the base query or a hashtag names a franchise-core subject
FranchiseCore ==
    \/ CurrentPlan.main_query \in {W_tanjiro, W_nezuko, W_zenitsu, W_inosuke}
    \/ \E i \in DOMAIN CurrentPlan.hashtags :
          CurrentPlan.hashtags[i] \in {W_tanjiro, W_nezuko, W_zenitsu, W_inosuke, W_demonslayer}

MemeRetry == [query |-> CurrentPlan.main_query \o <<" ">> \o W_meme, class |-> "retry"]
FranchiseRetry == [query |-> DemonSlayerAnime, class |-> "retry"]

\* C16 as stated: a strategy loop that ends with zero unique results is
\* followed by exactly one retry with base query + " meme" and, for a
\* franchise-core query, by one retry with the franchise query; no retry
\* follows a loop that found a result.
C16_RetriesIssued ==
    PlanReturned =>
        IF CurrentPlan.loop_found = 0
        THEN IssuedOf("retry") =
                 <<MemeRetry>> \o (IF FranchiseCore THEN <<FranchiseRetry>> ELSE <<>>)
        ELSE IssuedOf("retry") = <<>>

\* C16 as amended: after a loop with zero unique results the retry with
\* base query + " meme" is issued once unless a strategy already contains
\* "meme"; the franchise retry is issued once exactly when in addition the
\* query is franchise-core and the first retry was skipped or returned no
\* results; no retry follows a loop that found a result.
C16_RetriesAsCoded ==
    PlanReturned =>
        LET has_meme == \E i \in DOMAIN CurrentPlan.search_strategies :
                            Contains(W_meme, CurrentPlan.search_strategies[i])
            first == IF has_meme THEN <<>> ELSE <<MemeRetry>>
            second == IF FranchiseCore /\ (has_meme \/ CurrentPlan.retry_returned[1] = 0)
                      THEN <<FranchiseRetry>> ELSE <<>>
        IN  IF CurrentPlan.loop_found = 0
            THEN IssuedOf("retry") = first \o second
            ELSE IssuedOf("retry") = <<>>

\* search_memes("Nezuko") found nothing and issued both retries
C16_Witness ==
    PlanReturned /\ ret.op.arg = T_nezuko /\ Len(IssuedOf("retry")) = 2

\* C18: the first strategy is the normalized query: without punctuation,
\* stopwords and tokens of at most two characters, unless no token survives.
C18_BaseQueryNormalized ==
    (CurrentPlan.active /\ SurvivingTokens(PlanCall.arg) # <<>>) =>
        LET base == CurrentPlan.search_strategies[1]
        IN  /\ \A i \in DOMAIN base : IsWordChar(base[i]) \/ IsSpace(base[i])
            /\ \A i \in DOMAIN Split(base) :
                  Split(base)[i] \notin CommonWords /\ Len(Split(base)[i]) > 2

(***************************************************************************)
(* Properties of _search_online and _search_reddit (checked under Spec).   *)
(***************************************************************************)
\* a call of _search_online waits for a provider's response
OnlineWaits == pc = "request" /\ op.name = "_search_online"

\* a call of _search_reddit made on its own waits for a provider's response
RedditWaits == pc = "request" /\ op.name = "_search_reddit"

\* C27: _search_online asks the provider for query first, for query + " meme"
\* only while it holds fewer than limit results, and for "anime " + query
\* only while it still holds fewer than limit; it returns at most limit
\* results.
C27_RetryOrder ==
    /\ [](OnlineWaits =>
            /\ online.phase = 1 => reddit.request.q = op.arg
            /\ online.phase = 2 =>
                  /\ reddit.request.q = op.arg \o <<" ">> \o W_meme
                  /\ Len(online.results) < op.limit
            /\ online.phase = 3 =>
                  /\ reddit.request.q = W_anime \o <<" ">> \o op.arg
                  /\ Len(online.results) < op.limit)
    /\ []((ret.op.name = "_search_online" /\ ret.status = "returned") =>
            Len(ret.value) <= ret.op.limit)
    /\ [][/\ (pc = "idle" /\ OnlineWaits') => online'.phase = 1
          /\ (OnlineWaits /\ OnlineWaits') =>
                online'.phase \in {online.phase, online.phase + 1}]_vars

\* the third query of a _search_online call is pending after the first two
\* left it with one result of the two asked for
C27_Witness ==
    OnlineWaits /\ online.phase = 3 /\ op.limit = 2 /\ Len(online.results) = 1

\* C28: a result of a retry is dropped only if a result with the same title
\* and the same url is present: every result a retry returned has its
\* (title, url) pair among the merged results.
C28_TitleUrlIdentity ==
    OnlineWaits =>
        \A i \in DOMAIN online.offered :
            \E j \in DOMAIN online.results :
                /\ online.results[j].title = online.offered[i].title
                /\ online.results[j].url = online.offered[i].url

\* the order of the sub-sources
SubSourceOrder == <<"animemes", "anime_irl", "animememes", "goodanimemes", "KimetsuNoYaiba">>

\* C30: _search_reddit asks its sub-sources in the fixed order, each for
\* max(10, 3 x limit) entries and only while it holds fewer than limit
\* results; it returns at most limit results; a sub-source that fails does
\* not end the call: the call ends before the last sub-source only with
\* limit results.
C30_SubSources ==
    /\ [](RedditWaits =>
            /\ reddit.sub \in DOMAIN SubSourceOrder
            /\ reddit.request.subreddit = SubSourceOrder[reddit.sub]
            /\ reddit.request.q = op.arg
            /\ reddit.request.limit = (IF 3 * op.limit > 10 THEN 3 * op.limit ELSE 10)
            /\ Len(reddit.results) < op.limit)
    /\ []((ret.op.name = "_search_reddit" /\ ret.status = "returned") =>
            Len(ret.value) <= ret.op.limit)
    /\ [][/\ (pc = "idle" /\ RedditWaits') => reddit'.sub = 1
          /\ (RedditWaits /\ RedditWaits') => reddit'.sub = reddit.sub + 1
          /\ (RedditWaits /\ pc' = "idle") =>
                /\ ret'.op = op /\ ret'.status = "returned"
                /\ reddit.sub < Len(SubSourceOrder) => Len(ret'.value) = op.limit]_vars

\* the third sub-source is asked for 12 entries after the first two gave
\* one result between them
C30_Witness ==
    RedditWaits /\ reddit.sub = 3 /\ Len(reddit.results) = 1 /\ reddit.request.limit = 12

(***************************************************************************)
(* Properties of the strategy loop (checked under SpecPlan).               *)
(***************************************************************************)
\* C29: when search_memes returns fewer than limit results, every strategy
\* of its plan was passed to the online search.
C29_UniqueCountStops ==
    (PlanReturned /\ Len(ret.value) < ret.op.limit) =>
        Len(IssuedOf("strategy")) = Len(CurrentPlan.search_strategies)

(***************************************************************************)
(* Termination of search_memes (checked under SpecPlanLive).               *)
(***************************************************************************)
\* a call of search_memes waits for a provider's response
MemesWaits == pc = "request" /\ op.name = "search_memes"

\* (a, b, c) comes before (x, y, z) in the lexicographic order
LexLess(a, b, c, x, y, z) ==
    a < x \/ (a = x /\ b < y) \/ (a = x /\ b = y /\ c < z)

\* C32: search_memes ends after a bounded number of provider requests: with
\* h hashtags it passes at most 1 + 2h + (domain tags x character tags)
\* strategies and at most 2 generic retries to the online search; an
\* online search makes at most 3 queries, each over at most 5 sub-sources;
\* one request is pending at a time, for the query passed last, and every
\* request is further in (queries passed, query of the online search,
\* sub-source) than the one before; every pending request leads to the end
\* of the call.
C32_BoundedRequests ==
    /\ [](CurrentPlan.active =>
            LET h == CurrentPlan.hashtags
                domain == Cardinality({i \in DOMAIN h : h[i] \in AnimeTags})
                character == Cardinality({i \in DOMAIN h : h[i] \in CharacterTags})
            IN  /\ Len(IssuedOf("strategy")) <= 1 + 2 * Len(h) + domain * character
                /\ Len(IssuedOf("retry")) <= 2)
    /\ [](MemesWaits =>
            /\ online.active /\ reddit.active
            /\ online.phase \in 1..3
            /\ reddit.sub \in 1..5
            /\ online.query = memes.issued[Len(memes.issued)].query)
    /\ [][(MemesWaits /\ MemesWaits') =>
            LexLess(Len(memes.issued), online.phase, reddit.sub,
                    Len(memes'.issued), online'.phase, reddit'.sub)]_vars
    /\ (MemesWaits ~> pc = "idle")

\* the last request of the longest call: "cat #Anime #tanjiro" has passed
\* its 6 strategies and both retries, and the third query of the last
\* online search waits for the fifth sub-source
C32_Witness ==
    /\ MemesWaits
    /\ Len(memes.hashtags) = 2
    /\ Len(memes.issued) = 8
    /\ online.phase = 3
    /\ reddit.sub = 5

(***************************************************************************)
(* Malformed payloads (checked under SpecPayload).                         *)
(***************************************************************************)
\* C31: a payload with an entry that lacks the fields the adapter reads
\* contributes nothing: no meme parsed from that payload before the entry
\* raised is among the memes the adapter returns.
C31_MalformedGivesNothing ==
    ret.op.name \in {"_search_reddit", "_search_tenor", "_search_giphy"} =>
        \A i \in DOMAIN ret.partial : \A j \in DOMAIN ret.value :
            ret.value[j] # ret.partial[i]

(***************************************************************************)
(* Properties of the override database (checked under SpecDb).             *)
(***************************************************************************)
\* the step is the construction of instance i
Constructs(i) == ~searcher[i].constructed /\ dbRet'.name = "__init__" /\ dbRet'.inst = i

\* C21: constructing a MemeSearcher when no file exists at meme_db_path
\* does not raise; the instance's database is the empty mapping, and the
\* constructor writes a file that holds the empty mapping, whether or not
\* that write succeeds.
C21_NoFileIsNoError ==
    [][\A i \in Instances :
          (Constructs(i) /\ dbFile = [kind |-> "absent"]) =>
              /\ ~dbRet'.raised
              /\ searcher'[i].constructed
              /\ searcher'[i].local_meme_db = <<>>
              /\ dbRet'.write \in {"ok", "open_error", "write_error"}
              /\ dbRet'.write = "ok" =>
                    dbFile' = [kind |-> "json", data |-> [type |-> "object", items |-> <<>>]]
      ]_vars

\* an instance was constructed although the file could not be created
C21_Witness ==
    /\ dbRet.name = "__init__"
    /\ dbRet.write = "open_error"
    /\ dbFile = [kind |-> "absent"]
    /\ searcher[dbRet.inst].constructed
    /\ searcher[dbRet.inst].local_meme_db = <<>>

\* C22: whenever the database of an instance changes, add_meme has
\* appended one meme: the list under topic.lower() is its previous value
\* (empty if the key was absent) followed by the meme, every other list
\* and the order of the topics are as before, and the other instance's
\* database is unchanged.
C22_AddAppends ==
    [][\A i \in Instances :
          (searcher[i].constructed /\ searcher'[i] # searcher[i]) =>
              LET old == searcher[i].local_meme_db
                  new == searcher'[i].local_meme_db
                  k == Lower(dbRet'.topic.val)
                  had == \E n \in DOMAIN old : old[n].topic = k
              IN  /\ dbRet'.name = "add_meme" /\ dbRet'.inst = i
                  /\ Len(new) = Len(old) + (IF had THEN 0 ELSE 1)
                  /\ \A n \in DOMAIN old :
                        /\ new[n].topic = old[n].topic
                        /\ new[n].memes = IF old[n].topic = k
                                          THEN old[n].memes \o <<dbRet'.meme>>
                                          ELSE old[n].memes
                  /\ ~had => (new[Len(new)].topic = k /\ new[Len(new)].memes = <<dbRet'.meme>>)
                  /\ \A j \in Instances \ {i} : searcher'[j] = searcher[j]
      ]_vars

\* add_meme has put a second meme under a topic that held one
C22_Witness ==
    /\ dbRet.name = "add_meme"
    /\ dbRet.value
    /\ \E n \in DOMAIN searcher[dbRet.inst].local_meme_db :
          /\ Len(searcher[dbRet.inst].local_meme_db[n].memes) = 2
          /\ searcher[dbRet.inst].local_meme_db[n].memes[2] = dbRet.meme

\* C23: add_meme returns True exactly when the meme was appended and the
\* file was rewritten; it returns False when the write fails.
C23_TrueIffSaved ==
    dbRet.name = "add_meme" => (dbRet.value <=> dbRet.write = "ok")

\* the file holds exactly the database db: its topics and their memes, in order
FileHolds(db) ==
    /\ dbFile.kind = "json"
    /\ dbFile.data.type = "object"
    /\ Len(dbFile.data.items) = Len(db)
    /\ \A n \in DOMAIN db :
          /\ dbFile.data.items[n].topic = db[n].topic
          /\ Len(dbFile.data.items[n].memes) = Len(db[n].memes)
          /\ \A m \in DOMAIN db[n].memes :
                LET d == dbFile.data.items[n].memes[m]
                    meme == db[n].memes[m]
                IN  /\ d.title = meme.title /\ d.source = meme.source
                    /\ d.content_type = meme.content_type
                    /\ d.url = meme.url /\ d.tags = meme.tags

\* the file holds a meme with the title of meme under some topic
InFile(meme) ==
    /\ dbFile.kind = "json"
    /\ dbFile.data.type = "object"
    /\ \E n \in DOMAIN dbFile.data.items : \E m \in DOMAIN dbFile.data.items[n].memes :
          dbFile.data.items[n].memes[m].title = meme.title

\* C24: the last writer wins: after every write that completed, the file
\* holds the whole database of the instance that wrote, and nothing of the
\* other instance's that this database lacks.
C24_LastWriterWins ==
    (dbRet.name # "none" /\ dbRet.write = "ok") =>
        FileHolds(searcher[dbRet.inst].local_meme_db)

\* a lost update: instance 1 added meme "a" and wrote it to the file, then
\* instance 2 added meme "b": the file holds "b" and no longer holds "a"
C24_Witness ==
    /\ dbRet.name = "add_meme" /\ dbRet.inst = 2 /\ dbRet.write = "ok"
    /\ dbRet.meme = M_b
    /\ searcher[1].constructed /\ searcher[1].saved
    /\ \E n \in DOMAIN searcher[1].local_meme_db :
          M_a \in Range(searcher[1].local_meme_db[n].memes)
    /\ InFile(M_b)
    /\ ~InFile(M_a)

\* C33: constructing a MemeSearcher when a file exists at meme_db_path
\* leaves the content of the file unchanged, whether or not the content can
\* be parsed into memes.
C33_ExistingFileKept ==
    [][\A i \in Instances :
          (Constructs(i) /\ dbFile # [kind |-> "absent"]) => dbFile' = dbFile
      ]_vars

\* C34: after a construction that read the file or a call whose write
\* completed, the file deserializes to exactly the mapping of the instance
\* (same topics, same memes in the same order with the same fields): a new
\* MemeSearcher loads an equal mapping from it and leaves the file as it is.
C34_PersistedEqualsMemory ==
    (/\ dbRet.name # "none"
     /\ \/ dbRet.write = "ok"
        \/ dbRet.name = "__init__" /\ dbRet.write = "none")
    => \A w \in {"ok", "open_error", "write_error"} :
          /\ _load_local_memes(dbFile, w).local_meme_db = searcher[dbRet.inst].local_meme_db
          /\ _load_local_memes(dbFile, w).file = dbFile
          /\ ~_load_local_memes(dbFile, w).raised

\* instance 1 loaded one meme and added a second one with tags; instance 2
\* was constructed from the file after that and holds an equal mapping
C34_Witness ==
    /\ dbRet.name = "__init__" /\ dbRet.inst = 2 /\ dbRet.write = "none"
    /\ searcher[1].constructed /\ searcher[2].constructed
    /\ searcher[2].local_meme_db = searcher[1].local_meme_db
    /\ \E n \in DOMAIN searcher[2].local_meme_db :
          /\ Len(searcher[2].local_meme_db[n].memes) = 2
          /\ searcher[2].local_meme_db[n].memes[2].tags # <<>>

(***************************************************************************)
(* Properties of one instance that searches (checked under SpecLocal).     *)
(***************************************************************************)
\* C25: a search_memes call that got no result from the providers returns
\* memes when the local database holds memes under its topic.
C25_LocalFallback ==
    [][(/\ pc = "request" /\ pc' = "idle"
        /\ ret'.op.name = "search_memes" /\ ret'.status = "returned"
        /\ ret'.gathered = 0
        /\ \E n \in DOMAIN searcher[1].local_meme_db :
              /\ searcher[1].local_meme_db[n].topic = Lower(ret'.op.arg)
              /\ searcher[1].local_meme_db[n].memes # <<>>)
          => ret'.value # <<>>
      ]_vars

(***************************************************************************)
(* Properties of the web chat (checked under SpecWeb).                     *)
(***************************************************************************)
\* C26: no command of the help panel is sent to the LLM or recorded in the
\* memory agent.
C26_CommandsDispatched ==
    (webRet.route # "none" /\ webRet.message \in HelpPanel) =>
        (~webRet.llm /\ webRet.recorded = 0)

\* C37: handling one ordinary chat message adds exactly one entry to the
\* memory cache, holding the message and the reply, after the entries the
\* cache held (less the oldest one when the cache was full).
C37_OneEntryPerMessage ==
    [][(webRet'.route = "chat" /\ cache' # cache) =>
          \E answer \in {"reply", "api_error"} :
             cache' = (IF Len(cache) < MaxEntries THEN cache ELSE Tail(cache))
                         \o <<[response |-> [type |-> "str", val |-> answer],
                                user_input |-> [type |-> "str", val |-> webRet'.message]]>>
      ]_vars

(***************************************************************************)
(* Properties of the memory agent (checked under SpecMemory).              *)
(***************************************************************************)
\* C35: the cache is a bounded FIFO: it never holds more than max_entries
\* entries; after a load of a file that holds a list it holds the last
\* max_entries entries of the list, in order; record_interaction appends
\* its entry and evicts the oldest entry only, and only when the cache was
\* full; clear_cache empties it; no other operation changes it.
C35_BoundedFifo ==
    /\ [](/\ Len(cache) <= MaxEntries
          /\ (/\ memRet.name \in {"none", "load_cache"}
              /\ cache_file.kind = "json" /\ cache_file.data.type = "list")
             => LET list == cache_file.data.val
                IN  /\ Len(cache) = IF Len(list) < MaxEntries THEN Len(list) ELSE MaxEntries
                    /\ \A k \in DOMAIN cache : cache[k] = list[Len(list) - Len(cache) + k])
    /\ [][/\ memRet'.name = "record_interaction" =>
                cache' = (IF Len(cache) < MaxEntries THEN cache ELSE Tail(cache))
                            \o <<memRet'.entry>>
          /\ memRet'.name = "clear_cache" => cache' = <<>>
          /\ memRet'.name \in {"get_recent_entries", "analyze_user_interests"} =>
                cache' = cache
       ]_vars

\* a file of max_entries + 1 entries was loaded and one interaction was
\* recorded while the file could not be written: the cache holds the last
\* entry of the file and the new entry after it
C35_Witness ==
    /\ memRet.name = "record_interaction" /\ memRet.write = "open_error"
    /\ cache_file.kind = "json" /\ cache_file.data.type = "list"
    /\ Len(cache_file.data.val) = MaxEntries + 1
    /\ Len(cache) = MaxEntries
    /\ cache[MaxEntries] = memRet.entry
    /\ cache[MaxEntries - 1] = cache_file.data.val[MaxEntries + 1]

\* C36: get_recent_entries(count) with count >= 0 returns exactly
\* min(count, len(cache)) entries, the last ones of the cache in their
\* order; with count None it returns all entries.
C36_MostRecent ==
    memRet.name = "get_recent_entries" =>
        IF ~memRet.count.some THEN memRet.value = cache
        ELSE LET n == IF memRet.count.val < Len(cache) THEN memRet.count.val ELSE Len(cache)
             IN  /\ Len(memRet.value) = n
                 /\ \A k \in 1..n : memRet.value[k] = cache[Len(cache) - n + k]

\* C38: analyze_user_interests never raises; with an empty cache it returns
\* empty topic maps without calling the LLM; when the LLM path fails
\* (request error, unparsable reply, entry of unexpected shape) it returns
\* the keyword analysis, which holds only topics with a count > 0.
C38_NeverRaises ==
    memRet.name = "analyze_user_interests" =>
        /\ ~memRet.raised
        /\ cache = <<>> =>
              /\ ~memRet.llm_called
              /\ memRet.value = [demon_slayer_topics |-> <<>>, general_topics |-> <<>>]
        /\ (cache # <<>> /\ memRet.llm # "analysis") =>
              /\ memRet.fallback
              /\ memRet.value.summary = "keyword"
              /\ \A k \in DOMAIN memRet.value.demon_slayer_topics :
                    memRet.value.demon_slayer_topics[k].count > 0
              /\ \A k \in DOMAIN memRet.value.general_topics :
                    memRet.value.general_topics[k].count > 0

====
